---- MODULE Spec2Model ----
(***************************************************************************)
(* A model of the Milty draft core of ti4-tg-bot (src/ti4_tg_bot/map/      *)
(* milty.py): the tile and slice scoring, the draft state with its player  *)
(* choices, the random slice generation with retries and the slice         *)
(* rebalancer.                                                             *)
(*                                                                         *)
(* Python values are modelled as follows.                                  *)
(*   - A pydantic model is a record with the model's field names.          *)
(*   - A list is a sequence (1-based here, 0-based in the source; indices  *)
(*     that the program stores or shows are kept 0-based).                 *)
(*   - A dict is a function whose DOMAIN is the set of keys.               *)
(*   - A float that holds a resource, influence or skip value is a whole   *)
(*     number of twentieths (0.05 is the common unit of 0.1, 0.15, 0.2,    *)
(*     0.25 and of ri / 2), so 9 is 180 and 0.25 is 5.                     *)
(*   - A raised exception is the name of its class in a field or variable  *)
(*     `raised`; "None" stands for a normal return.                        *)
(***************************************************************************)
EXTENDS Integers, Sequences, FiniteSets, TLC

(***************************************************************************)
(* Bounds of the model.  The source fixes n_players and n_slices at 6      *)
(* (Literal[6]); every operation below reads the number from the state or  *)
(* the argument, as the source does, and the model runs it at a smaller    *)
(* number.                                                                 *)
(***************************************************************************)
n_players == 2

n_factions == 3

\* The seeds 0..MaxSeed, the retry budgets and the iteration ceilings a caller
\* passes to make_generation.
MaxSeed == 5

MaxRetriesGlobal == 2

MaxRetriesGen == 1

MaxTries == 3

\* The defaults n_reds and n_blues of make_random and make_generation.
n_reds == 2

n_blues == 3

VARIABLES
    draft,      \* the MiltyDraftState the players draft from
    raised,     \* what the last apply_player_choice call raised
    tmap,       \* what to_map returned for the draft as it is now, if called
    \* one call of SliceRebalancer.make_generation:
    tileset,    \* argument tileset
    slice_rebalancer, \* the SliceRebalancer the method is called on
    args,       \* arguments seed, retries_global, retries_gen, retries_rebalance
    os_entropy, \* what Random(None) would seed itself from at this moment
    pc,         \* where the call stands
    i_try_global,
    rng,        \* make_generation's rng
    raw_draft,  \* the draft make_random returned in this attempt
    rb,         \* the frame of the running rebalance call
    caught,     \* the exceptions the except clause has caught, in order
    rebalance_result,  \* how the last rebalance call ended
    result,     \* how make_generation ended
    run,        \* 1 for the first run of the call, 2 for its repetition
    first,      \* the result of the first run
    \* one call of a HexCoord operation (hexes.py):
    hx,         \* the operation, its arguments, what it raised or returned
    \* one call of MiltyDraftState.make_random:
    mr,         \* its arguments, what it raised or returned
    \* one call of a function of gen_helper.py, milty.py or models.py on values
    \* of the caller:
    call,       \* the function, its arguments, what it raised or returned
    \* a draft of six players run turn by turn along snake_order:
    snake,      \* the turns taken and the way the players pick
    \* the bot (lobby_logic.py) in its chats:
    gback,      \* the GlobalBackend: lobby_msg, lobby_users, games
    heap,       \* the objects the backend and the coroutines refer to
    tasks,      \* the coroutines of the handlers suspended at an await
    telegram,   \* the chats' side: keyboards shown, updates on their way
    last_choice, \* what the last request_choice call returned
    log         \* the exceptions that ended handlers

draft_vars == <<draft, raised, tmap>>

gen_vars == <<tileset, slice_rebalancer, args, os_entropy, pc, i_try_global, rng, raw_draft,
              rb, caught, rebalance_result, result, run, first>>

bot_vars == <<gback, heap, tasks, telegram, last_choice, log>>

lib_vars == <<hx, mr, call, snake, bot_vars>>

vars == <<draft_vars, gen_vars, lib_vars>>

-----------------------------------------------------------------------------
(* Generic helpers for lists and dicts. *)

\* range(n) as a list
Range(n) == [i \in 1..n |-> i - 1]

\* dict.values() as a set
Values(d) == {d[k] : k \in DOMAIN d}

\* d[k] = v on a dict
Put(d, k, v) == [x \in (DOMAIN d) \cup {k} |-> IF x = k THEN v ELSE d[x]]

\* list.index(x): the 0-based position of the first element equal to x
Index(s, x) == (CHOOSE i \in 1..Len(s) : s[i] = x /\ \A j \in 1..(i - 1) : s[j] # x) - 1

\* the Python slice s[a:b] of a list, for 0 <= a <= b
\* the slice s[0 : b - a]: the start of the chunk is dropped
PySlice_head(s, a, b) ==
    SubSeq(s, 1, IF b - a < Len(s) THEN b - a ELSE Len(s))

PySlice(s, a, b) ==
    SubSeq(s, a + 1, IF b < Len(s) THEN b ELSE Len(s))

\* a number of twentieths formatted as f"{v:.2f}"
Fmt2f(v) ==
    LET cents == (v % 20) * 5
    IN  ToString(v \div 20) \o "." \o (IF cents < 10 THEN "0" ELSE "") \o ToString(cents)

-----------------------------------------------------------------------------
(* data/models.py: tiles and planets. *)

Planet(resources, influence, tech) ==
    [resources |-> resources, influence |-> influence, tech |-> tech]

Tile(number, race, wormhole, anomaly, planets) ==
    [number |-> number, race |-> race, wormhole |-> wormhole,
     anomaly |-> anomaly, planets |-> planets]

Wormhole == {"NO_WORMHOLE", "ALPHA", "BETA"}

Faction(name) == [name |-> name]

-----------------------------------------------------------------------------
(* milty.py: ApproxValue and the scoring of tiles and slices. *)

ApproxValue(er, ei, m, sr, si) ==
    [eff_resources |-> er, eff_influence |-> ei, misc |-> m,
     strict_resources |-> sr, strict_influence |-> si]

total(av) == av.eff_resources + av.eff_influence + av.misc

ApproxValue_add(a, b) ==
    ApproxValue(a.eff_resources + b.eff_resources,
                a.eff_influence + b.eff_influence,
                a.misc + b.misc,
                a.strict_resources + b.strict_resources,
                a.strict_influence + b.strict_influence)

DEFAULT_SKIP_VALUES(tech) ==
    CASE tech = "NO_TECH" -> 0
      [] tech = "RED"     -> 2
      [] tech = "YELLOW"  -> 3
      [] tech = "GREEN"   -> 4
      [] tech = "BLUE"    -> 5
      [] OTHER            -> 0

\* the loop of evaluate_tile that gives a planet of equal resources and
\* influence to the resources alone
RECURSIVE evaluate_planets_no_split(_, _)
evaluate_planets_no_split(ps, k) ==
    IF k = 0 THEN ApproxValue(0, 0, 0, 0, 0)
    ELSE LET acc == evaluate_planets_no_split(ps, k - 1)
             ri  == ps[k].resources
             ii  == ps[k].influence
         IN  ApproxValue(
                acc.eff_resources + (IF ri >= ii THEN 20 * ri ELSE 0),
                acc.eff_influence + (IF ri < ii THEN 20 * ii ELSE 0),
                acc.misc + DEFAULT_SKIP_VALUES(ps[k].tech),
                acc.strict_resources + ri,
                acc.strict_influence + ii)

\* the loop of evaluate_tile over the first k planets
RECURSIVE evaluate_planets(_, _)
evaluate_planets(ps, k) ==
    IF k = 0 THEN ApproxValue(0, 0, 0, 0, 0)
    ELSE LET acc == evaluate_planets(ps, k - 1)
             ri  == ps[k].resources
             ii  == ps[k].influence
         IN  ApproxValue(
                acc.eff_resources + (IF ri > ii THEN 20 * ri
                                     ELSE IF ri < ii THEN 0 ELSE 10 * ri),
                acc.eff_influence + (IF ri > ii THEN 0
                                     ELSE IF ri < ii THEN 20 * ii ELSE 10 * ii),
                acc.misc + DEFAULT_SKIP_VALUES(ps[k].tech),
                acc.strict_resources + ri,
                acc.strict_influence + ii)

evaluate_tile(tile) == evaluate_planets(tile.planets, Len(tile.planets))

-----------------------------------------------------------------------------
(* milty.py: MiltyMapSlice. *)

MiltyMapSlice(home, cl, cm, cr, fl, fm) ==
    [home |-> home, close_left |-> cl, close_mid |-> cm, close_right |-> cr,
     far_left |-> fl, far_mid |-> fm]

\* from_list that takes the first tile of six for the home
from_list_home_first(ts) ==
    IF Len(ts) = 5
    THEN [raised |-> "None",
          value  |-> MiltyMapSlice("None", ts[1], ts[2], ts[3], ts[4], ts[5])]
    ELSE IF Len(ts) = 6
    THEN [raised |-> "None",
          value  |-> MiltyMapSlice(ts[1], ts[2], ts[3], ts[4], ts[5], ts[6])]
    ELSE [raised |-> "ValueError", value |-> "None"]

\* from_list: a slice, or the ValueError for a list that has not 5 or 6 tiles
from_list(ts) ==
    IF Len(ts) = 5
    THEN [raised |-> "None",
          value  |-> MiltyMapSlice("None", ts[1], ts[2], ts[3], ts[4], ts[5])]
    ELSE IF Len(ts) = 6
    THEN [raised |-> "None",
          value  |-> MiltyMapSlice(ts[6], ts[1], ts[2], ts[3], ts[4], ts[5])]
    ELSE [raised |-> "ValueError", value |-> "None"]

\* the property MiltyMapSlice.tiles
tiles(slice) ==
    <<slice.close_left, slice.close_mid, slice.close_right,
      slice.far_left, slice.far_mid>>

\* the loop of evaluate_slice over the first k tiles
RECURSIVE evaluate_tiles(_, _)
evaluate_tiles(ts, k) ==
    IF k = 0 THEN ApproxValue(0, 0, 0, 0, 0)
    ELSE ApproxValue_add(evaluate_tiles(ts, k - 1), evaluate_tile(ts[k]))

\* evaluate_slice that leaves the last tile out
evaluate_slice_four(slice) == evaluate_tiles(tiles(slice), 4)

evaluate_slice(slice) == evaluate_tiles(tiles(slice), 5)

-----------------------------------------------------------------------------
(* The catalog the runs draw from: tiles in the style of the base game.    *)
(* Blue tiles carry planets, red tiles carry none; one red tile has an     *)
(* alpha and one a beta wormhole, and so has one blue tile each.           *)

BluePlanets(k) ==
    CASE k % 4 = 0 -> <<Planet(2, 1, "NO_TECH")>>
      [] k % 4 = 1 -> <<Planet(1, 3, "NO_TECH"), Planet(1, 1, "RED")>>
      [] k % 4 = 2 -> <<Planet(3, 1, "BLUE")>>
      [] OTHER     -> <<Planet(0, 2, "NO_TECH"), Planet(2, 0, "GREEN")>>

\* the k-th blue tile of a pool of n
BlueTile(k, n) ==
    Tile(19 + k, "None",
         IF k = n - 1 THEN "ALPHA" ELSE IF k = n - 2 THEN "BETA" ELSE "NO_WORMHOLE",
         "NO_ANOMALY", BluePlanets(k))

\* the k-th red tile
RedTile(k) ==
    Tile(39 + k, "None",
         IF k = 0 THEN "ALPHA" ELSE IF k = 1 THEN "BETA" ELSE "NO_WORMHOLE",
         IF k % 2 = 0 THEN "EMPTY" ELSE "NEBULA", <<>>)

HomeTile(k) ==
    Tile(1 + k, "Faction " \o ToString(k), "NO_WORMHOLE", "NO_ANOMALY",
         <<Planet(4, 2, "NO_TECH")>>)

Mecatol == Tile(18, "None", "NO_WORMHOLE", "NO_ANOMALY", <<Planet(1, 6, "NO_TECH")>>)

TileSet(n_blue, n_red, n_home) ==
    [mecatol    |-> Mecatol,
     blue_tiles |-> [i \in 1..n_blue |-> BlueTile(i - 1, n_blue)],
     red_tiles  |-> [i \in 1..n_red |-> RedTile(i - 1)],
     home_tiles |-> [i \in 1..n_home |-> HomeTile(i - 1)]]

-----------------------------------------------------------------------------
(* milty.py: MiltyDraftState, the player choices. *)

\* the number of tiles of a slice that carry the wormhole wht
CountWormhole(slice, wht) ==
    Cardinality({k \in 1..5 : tiles(slice)[k].wormhole = wht})

\* _chk_slices that tolerates two wormholes of a kind
chk_slices_lax(v) ==
    \A i \in 1..Len(v) : \A wht \in Wormhole \ {"NO_WORMHOLE"} :
        ~(CountWormhole(v[i], wht) > 2)

\* _chk_slices: TRUE when the validator raises nothing
chk_slices(v) ==
    \A i \in 1..Len(v) : \A wht \in Wormhole \ {"NO_WORMHOLE"} :
        ~(CountWormhole(v[i], wht) > 1)

\* MiltyDraftState(slices=..., mecatol=...): the validated model, or the
\* ValidationError of the length constraint on slices or of _chk_slices
MiltyDraftState(slices, mecatol) ==
    IF Len(slices) # n_players \/ ~chk_slices(slices)
    THEN [raised |-> "ValidationError", value |-> "None"]
    ELSE [raised |-> "None",
          value  |-> [n_players |-> n_players, slices |-> slices,
                      factions |-> <<>>, faction_homes |-> <<>>, mecatol |-> mecatol,
                      player_names |-> <<>>, player_order |-> <<>>,
                      player_slices |-> <<>>, player_factions |-> <<>>]]

\* available_seats that forgets to leave out the seats already taken
available_seats_all(self) == Range(self.n_players)

available_seats(self) ==
    SelectSeq(Range(self.n_players), LAMBDA x : x \notin Values(self.player_order))

\* the indices of available_factions (the faction and its home tile are
\* self.factions[i] and self.faction_homes[i])
available_factions(self) ==
    SelectSeq(Range(Len(self.factions)), LAMBDA x : x \notin Values(self.player_factions))

\* the indices of available_slices
available_slices(self) ==
    SelectSeq(Range(self.n_players), LAMBDA x : x \notin Values(self.player_slices))

\* is_complete that compares the three maps with each other only
is_complete_no_n(self) ==
    /\ Cardinality(DOMAIN self.player_factions) = Cardinality(DOMAIN self.player_order)
    /\ Cardinality(DOMAIN self.player_order) = Cardinality(DOMAIN self.player_slices)

is_complete(self) ==
    /\ self.n_players = Cardinality(DOMAIN self.player_factions)
    /\ Cardinality(DOMAIN self.player_factions) = Cardinality(DOMAIN self.player_order)
    /\ Cardinality(DOMAIN self.player_order) = Cardinality(DOMAIN self.player_slices)

SeatLabel(seat_i) ==
    IF seat_i = 0 THEN "Speaker (Seat 0)" ELSE "Seat " \o ToString(seat_i)

SliceLabel(sl_i, slice) ==
    LET ev == evaluate_slice(slice)
    IN  "Slice " \o ToString(sl_i) \o " (~" \o Fmt2f(total(ev)) \o "/"
        \o ToString(ev.strict_resources) \o "/" \o ToString(ev.strict_influence) \o ")"

\* The dict of available_player_choices: label -> choice.  A choice is tagged
\* with the Python type apply_player_choice tests it for.  The three loops
\* write into one dict, so of two entries with one label the later stays.
available_player_choices(self, player_num) ==
    LET seats == IF player_num \notin DOMAIN self.player_order
                 THEN available_seats(self) ELSE <<>>
        slcs  == IF player_num \notin DOMAIN self.player_slices
                 THEN available_slices(self) ELSE <<>>
        facs  == IF player_num \notin DOMAIN self.player_factions
                 THEN available_factions(self) ELSE <<>>
        \* the assignments res[label] = choice in the order the loops make them
        items ==
            [i \in 1..Len(seats) |->
                [label |-> SeatLabel(seats[i]), type |-> "int", value |-> seats[i]]]
            \o [i \in 1..Len(slcs) |->
                [label |-> SliceLabel(slcs[i], self.slices[slcs[i] + 1]),
                 type |-> "MiltyMapSlice", value |-> self.slices[slcs[i] + 1]]]
            \o [i \in 1..Len(facs) |->
                [label |-> self.factions[facs[i] + 1].name,
                 type |-> "Faction", value |-> self.factions[facs[i] + 1]]]
        last(l) == CHOOSE i \in 1..Len(items) :
                      /\ items[i].label = l
                      /\ \A j \in (i + 1)..Len(items) : items[j].label # l
    IN  [l \in {items[i].label : i \in 1..Len(items)} |->
            [type |-> items[last(l)].type, value |-> items[last(l)].value]]

\* The body of apply_player_choice over a given dict of choices.
apply_from(self, av_choices, player_num, choice_name) ==
        IF choice_name \notin DOMAIN av_choices
        THEN [self |-> self, raised |-> "ValueError"]
        ELSE LET choice == av_choices[choice_name]
             IN  CASE choice.type = "int" ->
                        [self   |-> [self EXCEPT !.player_order =
                                        Put(@, player_num, choice.value)],
                         raised |-> "None"]
                   [] choice.type = "Faction" ->
                        [self   |-> [self EXCEPT !.player_factions =
                                        Put(@, player_num, Index(self.factions, choice.value))],
                         raised |-> "None"]
                   [] choice.type = "MiltyMapSlice" ->
                        [self   |-> [self EXCEPT !.player_slices =
                                        Put(@, player_num, Index(self.slices, choice.value))],
                         raised |-> "None"]

\* apply_player_choice that looks the label up in the choices of a player who
\* has chosen nothing yet (a dict that is not derived from the player's state)
apply_player_choice_stale(self, player_num, choice_name) ==
    apply_from(self,
               available_player_choices(
                   [self EXCEPT !.player_order = [k \in DOMAIN @ \ {player_num} |-> @[k]],
                                !.player_slices = [k \in DOMAIN @ \ {player_num} |-> @[k]],
                                !.player_factions = [k \in DOMAIN @ \ {player_num} |-> @[k]]],
                   player_num),
               player_num, choice_name)

\* apply_player_choice that returns on an unknown label instead of raising
apply_player_choice_silent(self, player_num, choice_name) ==
    IF choice_name \notin DOMAIN available_player_choices(self, player_num)
    THEN [self |-> self, raised |-> "None"]
    ELSE apply_from(self, available_player_choices(self, player_num), player_num, choice_name)

\* apply_player_choice: the state after the call and what the call raised
apply_player_choice(self, player_num, choice_name) ==
    apply_from(self, available_player_choices(self, player_num), player_num, choice_name)

\* snake_order that goes there and back and not there again
snake_order_no_return(self) ==
    LET z == Range(self.n_players)
        reversed == [i \in 1..Len(z) |-> z[Len(z) + 1 - i]]
    IN  z \o reversed

\* snake_order
snake_order(self) ==
    LET z == Range(self.n_players)
        reversed == [i \in 1..Len(z) |-> z[Len(z) + 1 - i]]
    IN  z \o reversed \o z

-----------------------------------------------------------------------------
(* random.Random.  The generator is a deterministic stream: its state is a *)
(* number, every draw advances the state and is a function of it, a clone  *)
(* (setstate(getstate())) is the same number.  Random(seed) with an int    *)
(* starts the stream at a state fixed by the seed; Random(None) starts it  *)
(* from the operating system's entropy.  shuffle and choice are the        *)
(* library's algorithms over _randbelow.                                   *)

RngNext(state) == (state * 37 + 11) % 251

\* _randbelow(n): the value drawn and the generator after the draw
randbelow(state, n) ==
    [value |-> (RngNext(state) \div 3) % n, rng |-> RngNext(state)]

\* shuffle: for i in reversed(range(1, len(x))): j = randbelow(i + 1); swap
RECURSIVE shuffle_from(_, _, _)
shuffle_from(x, state, i) ==
    IF i < 1 THEN [value |-> x, rng |-> state]
    ELSE LET d == randbelow(state, i + 1)
         IN  shuffle_from([x EXCEPT ![i + 1] = x[d.value + 1],
                                    ![d.value + 1] = x[i + 1]],
                          d.rng, i - 1)

shuffle(x, state) == shuffle_from(x, state, Len(x) - 1)

\* choice(seq) of a non-empty list
choice(seq, state) ==
    [value |-> seq[randbelow(state, Len(seq)).value + 1],
     rng   |-> randbelow(state, Len(seq)).rng]

\* The seed argument of make_random, rebalance and make_generation.
SeedInt(n) == [type |-> "int", state |-> n]
SeedNone == [type |-> "NoneType", state |-> 0]
SeedRandom(state) == [type |-> "Random", state |-> state]

\* the preamble that ignores the seed it is given: rng = Random()
rng_unseeded(seed, entropy) == entropy

\* The preamble of the three methods: a clone of a Random, else Random(seed).
rng_of_seed(seed, entropy) ==
    IF seed.type = "Random" THEN seed.state
    ELSE IF seed.type = "int" THEN seed.state % 251
    ELSE entropy

-----------------------------------------------------------------------------
(* milty.py: MiltyDraftState.make_random. *)

\* make_slices that ends the loop at the first chunk from_list turns down and
\* hands out the slices built so far
RECURSIVE make_slices_short(_, _, _, _, _, _, _, _)
make_slices_short(reds, blues, state, i, n_slices, k_reds, k_blues, slices) ==
    IF i = n_slices THEN [raised |-> "None", value |-> slices, rng |-> state]
    ELSE LET raw_i == shuffle(PySlice(reds, k_reds * i, k_reds * (i + 1))
                              \o PySlice(blues, k_blues * i, k_blues * (i + 1)),
                              state)
             made  == from_list(raw_i.value)
         IN  IF made.raised # "None"
             THEN [raised |-> "None", value |-> slices, rng |-> raw_i.rng]
             ELSE make_slices_short(reds, blues, raw_i.rng, i + 1, n_slices,
                                    k_reds, k_blues, Append(slices, made.value))

\* The loop over range(n_slices) from slice i on: the slices built and the
\* generator after them, or the ValueError of from_list.
RECURSIVE make_slices(_, _, _, _, _, _, _, _)
make_slices(reds, blues, state, i, n_slices, k_reds, k_blues, slices) ==
    IF i = n_slices THEN [raised |-> "None", value |-> slices, rng |-> state]
    ELSE LET raw_i == shuffle(PySlice(reds, k_reds * i, k_reds * (i + 1))
                              \o PySlice(blues, k_blues * i, k_blues * (i + 1)),
                              state)
             made  == from_list(raw_i.value)
         IN  IF made.raised # "None"
             THEN [raised |-> made.raised, value |-> slices, rng |-> raw_i.rng]
             ELSE make_slices(reds, blues, raw_i.rng, i + 1, n_slices, k_reds,
                              k_blues, Append(slices, made.value))

\* make_random whose retry passes on the seed it was given, not its rng
RECURSIVE make_random_reseed(_, _, _, _, _, _, _)
make_random_reseed(ts, seed, entropy, n_slices, k_reds, k_blues, retries) ==
    IF retries < 0
    THEN [raised |-> "RuntimeError", res |-> "None", rng |-> 0, candidates |-> <<>>]
    ELSE
    LET rng0   == rng_of_seed(seed, entropy)
        reds   == shuffle(ts.red_tiles, rng0)
        blues  == shuffle(ts.blue_tiles, reds.rng)
        built  == make_slices(reds.value, blues.value, blues.rng, 0,
                              n_slices, k_reds, k_blues, <<>>)
        res    == MiltyDraftState(built.value, ts.mecatol)
        again  == make_random_reseed(ts, seed, entropy,
                                     n_slices, k_reds, k_blues, retries - 1)
    IN  IF built.raised # "None"
        THEN [raised |-> built.raised, res |-> "None", rng |-> 0, candidates |-> <<>>]
        ELSE IF res.raised = "None"
        THEN [raised |-> "None", res |-> res.value, rng |-> built.rng,
              candidates |-> <<built.value>>]
        ELSE [raised |-> again.raised, res |-> again.res, rng |-> again.rng,
              candidates |-> <<built.value>> \o again.candidates]

\* make_random: what it raised, the draft state and the generator it
\* returns, and the candidates it built (the slices of each, in order).
RECURSIVE make_random(_, _, _, _, _, _, _)
make_random(ts, seed, entropy, n_slices, k_reds, k_blues, retries) ==
    IF retries < 0
    THEN [raised |-> "RuntimeError", res |-> "None", rng |-> 0, candidates |-> <<>>]
    ELSE
    LET rng0   == rng_of_seed(seed, entropy)
        reds   == shuffle(ts.red_tiles, rng0)
        blues  == shuffle(ts.blue_tiles, reds.rng)
        built  == make_slices(reds.value, blues.value, blues.rng, 0,
                              n_slices, k_reds, k_blues, <<>>)
        res    == MiltyDraftState(built.value, ts.mecatol)
        again  == make_random(ts, SeedRandom(built.rng), entropy,
                              n_slices, k_reds, k_blues, retries - 1)
    IN  IF built.raised # "None"
        THEN [raised |-> built.raised, res |-> "None", rng |-> 0, candidates |-> <<>>]
        ELSE IF res.raised = "None"
        THEN [raised |-> "None", res |-> res.value, rng |-> built.rng,
              candidates |-> <<built.value>>]
        ELSE \* except ValidationError: retry; except RuntimeError: raise RuntimeError
             [raised |-> again.raised, res |-> again.res, rng |-> again.rng,
              candidates |-> <<built.value>> \o again.candidates]

-----------------------------------------------------------------------------
(* milty.py: get_tile_quantity, get_slice_quantity and the SliceRebalancer. *)

QtyName == <<"total", "eff_resources", "eff_influence",
             "strict_resources", "strict_influence">>

Quantity(av, q_name) ==
    CASE q_name = "total"            -> total(av)
      [] q_name = "eff_resources"    -> av.eff_resources
      [] q_name = "eff_influence"    -> av.eff_influence
      [] q_name = "strict_resources" -> av.strict_resources
      [] q_name = "strict_influence" -> av.strict_influence

get_tile_quantity(t, q_name) == Quantity(evaluate_tile(t), q_name)

get_slice_quantity(s, q_name) == Quantity(evaluate_slice(s), q_name)

\* A SliceRebalancer.  An optional threshold is a set: {} for None, {v} for v.
\* Thresholds are in the unit of their quantity (twentieths for total and the
\* effective values, whole numbers for the strict ones).
SliceRebalancer(min_value, min_er, min_ei, min_sr, min_si) ==
    [min_value |-> min_value, min_eff_resources |-> min_er,
     min_eff_influence |-> min_ei, min_strict_resources |-> min_sr,
     min_strict_influence |-> min_si]

\* thresh_map of _random_step: the dict of the thresholds that are not None
thresh_map(rebalancer) ==
    LET raw == [q \in {"total", "eff_resources", "eff_influence",
                       "strict_resources", "strict_influence"} |->
                  CASE q = "total"            -> {rebalancer.min_value}
                    [] q = "eff_resources"    -> rebalancer.min_eff_resources
                    [] q = "eff_influence"    -> rebalancer.min_eff_influence
                    [] q = "strict_resources" -> rebalancer.min_strict_resources
                    [] q = "strict_influence" -> rebalancer.min_strict_influence]
    IN  [q \in {k \in DOMAIN raw : raw[k] # {}} |-> CHOOSE v \in raw[q] : TRUE]

\* list(thresh_map): its keys in insertion order
to_fix_list(rebalancer) ==
    SelectSeq(QtyName, LAMBDA q : q \in DOMAIN thresh_map(rebalancer))

\* sorted(slices, key=quantity)[0]: the position (1-based) in slices of the
\* first slice of least quantity; the sort is stable
sl_order_first(slices, q_name) ==
    CHOOSE i \in 1..Len(slices) :
        /\ \A j \in 1..Len(slices) :
              get_slice_quantity(slices[i], q_name) <= get_slice_quantity(slices[j], q_name)
        /\ \A j \in 1..(i - 1) :
              get_slice_quantity(slices[j], q_name) # get_slice_quantity(slices[i], q_name)

\* sl_order[-1] that is taken from the front of the sorted list
sl_order_last_front(slices, q_name) ==
    CHOOSE i \in 1..Len(slices) :
        /\ \A j \in 1..Len(slices) :
              get_slice_quantity(slices[i], q_name) <= get_slice_quantity(slices[j], q_name)
        /\ \A j \in 1..(i - 1) :
              get_slice_quantity(slices[j], q_name) # get_slice_quantity(slices[i], q_name)

\* sorted(slices, key=quantity)[-1]: the last slice of greatest quantity
sl_order_last(slices, q_name) ==
    CHOOSE i \in 1..Len(slices) :
        /\ \A j \in 1..Len(slices) :
              get_slice_quantity(slices[i], q_name) >= get_slice_quantity(slices[j], q_name)
        /\ \A j \in (i + 1)..Len(slices) :
              get_slice_quantity(slices[j], q_name) # get_slice_quantity(slices[i], q_name)

\* The for loop of _random_step over to_fix from position k on: the first
\* quantity whose least slice is below its threshold, or "None".
RECURSIVE first_to_fix(_, _, _, _)
first_to_fix(rebalancer, slices, to_fix, k) ==
    IF k > Len(to_fix) THEN "None"
    ELSE IF get_slice_quantity(slices[sl_order_first(slices, to_fix[k])], to_fix[k])
              < thresh_map(rebalancer)[to_fix[k]]
         THEN to_fix[k]
         ELSE first_to_fix(rebalancer, slices, to_fix, k + 1)

\* swap_tile that takes original out and puts updated in front of the rest
swap_tile_front(slice, original, updated) ==
    IF \A k \in 1..5 : tiles(slice)[k] # original
    THEN [raised |-> "ValueError", value |-> slice]
    ELSE LET at  == Index(tiles(slice), original) + 1
             ttt == <<updated>> \o SubSeq(tiles(slice), 1, at - 1)
                               \o SubSeq(tiles(slice), at + 1, 5)
         IN  [raised |-> "None",
              value  |-> MiltyMapSlice(slice.home, ttt[1], ttt[2], ttt[3], ttt[4], ttt[5])]

\* swap_tile that replaces original at every place it stands at
swap_tile_all(slice, original, updated) ==
    IF \A k \in 1..5 : tiles(slice)[k] # original
    THEN [raised |-> "ValueError", value |-> slice]
    ELSE LET ttt == [k \in 1..5 |-> IF tiles(slice)[k] = original THEN updated
                                    ELSE tiles(slice)[k]]
         IN  [raised |-> "None",
              value  |-> MiltyMapSlice(slice.home, ttt[1], ttt[2], ttt[3], ttt[4], ttt[5])]

\* swap_tile: the slice with original replaced, or the ValueError
swap_tile(slice, original, updated) ==
    IF \A k \in 1..5 : tiles(slice)[k] # original
    THEN [raised |-> "ValueError", value |-> slice]
    ELSE LET ttt == [tiles(slice) EXCEPT ![Index(tiles(slice), original) + 1] = updated]
         IN  [raised |-> "None",
              value  |-> MiltyMapSlice(slice.home, ttt[1], ttt[2], ttt[3], ttt[4], ttt[5])]

\* Every threshold of the rebalancer is met by every slice.
ThresholdsMet(rebalancer, slices) ==
    \A q \in DOMAIN thresh_map(rebalancer) : \A i \in 1..Len(slices) :
        get_slice_quantity(slices[i], q) >= thresh_map(rebalancer)[q]

-----------------------------------------------------------------------------
(* The draft: a generated draft state and any sequence of                  *)
(* apply_player_choice calls on it.                                        *)

\* A draft state as gen_milty_base hands it out: n_players valid slices cut
\* from the catalog (2 red and 3 blue tiles each), the chosen factions with
\* their home tiles, and empty player maps.
GeneratedDraft ==
    LET ts == TileSet(3 * n_players, 2 * n_players, n_factions)
        slice(i) == from_list(SubSeq(ts.red_tiles, 2 * i - 1, 2 * i)
                              \o SubSeq(ts.blue_tiles, 3 * i - 2, 3 * i)).value
    IN  [MiltyDraftState([i \in 1..n_players |-> slice(i)], ts.mecatol).value
            EXCEPT !.factions = [i \in 1..n_factions |-> Faction("Faction " \o ToString(i - 1))],
                   !.faction_homes = ts.home_tiles]

\* The player numbers a caller passes: the players, and one number past them.
PlayerNums == 0..n_players

\* The labels a caller passes: every label some state offers, a seat that
\* does not exist, a slice label with a stale score, and an unknown word.
ChoiceNames ==
    {SeatLabel(i) : i \in 0..n_players}
    \cup {SliceLabel(i - 1, GeneratedDraft.slices[i]) : i \in 1..n_players}
    \cup {"Slice 0 (~0.00/0/0)", "Unknown"}
    \cup {GeneratedDraft.factions[i].name : i \in 1..n_factions}

\* the preamble that draws from the caller's Random: rng = seed
rng_object_shared(seed) == IF seed.type = "Random" THEN "seed" ELSE "new"

\* The preamble of make_random, rebalance and make_generation: the object
\* the method draws from is a clone of the caller's Random, or a new Random.
rng_object(seed) == IF seed.type = "Random" THEN "clone" ELSE "new"

\* make_random, lines 315-328: the slices of one candidate (or the
\* ValueError of from_list) and the generator after the draws
build_candidate(ts, state, n_slices, k_reds, k_blues) ==
    LET reds  == shuffle(ts.red_tiles, state)
        blues == shuffle(ts.blue_tiles, reds.rng)
    IN  make_slices(reds.value, blues.value, blues.rng, 0,
                    n_slices, k_reds, k_blues, <<>>)

\* The state of the caller's Random when make_random has ended: the object
\* make_random drew from has made at least the draws of its first candidate.
seed_after_make_random(ts, seed, entropy, n_slices, k_reds, k_blues, retries) ==
    IF retries >= 0 /\ rng_object(seed) = "seed"
    THEN build_candidate(ts, rng_of_seed(seed, entropy), n_slices, k_reds, k_blues).rng
    ELSE seed.state

\* rebalance with slices = list(original.slices): the caller's slice objects
slices_object_shared(original) == "original"

\* rebalance, line 649: the slices rebalance works on are deep copies
slices_object(original) == "copy"

\* No make_generation call is under way.
NoFrame ==
    [rng |-> 0, slices |-> <<>>, i_try |-> 0, smaller |-> 0, larger |-> 0,
     qty_name |-> "None", rng_obj |-> "None", slices_obj |-> "None"]

NoResult == [raised |-> "no call", value |-> "None"]

\* to_map has not been called since the draft last changed.
NoMap == [raised |-> "no call", cells |-> <<>>, annotations |-> <<>>, log |-> <<>>]

\* No HexCoord operation and no make_random call has been made.
NoCall == [op |-> "None", args |-> <<>>, raised |-> "no call", value |-> "None"]

\* The bot has just been started: no lobby, no game, no coroutine.
BotIdle ==
    /\ gback = [lobby_msg |-> <<>>, lobby_users |-> <<>>, games |-> <<>>]
    /\ heap = [user_dicts |-> <<>>, games |-> <<>>, queues |-> <<>>]
    /\ tasks = <<>>
    /\ telegram = [keyboards |-> {}, updates |-> <<>>,
                   may |-> [start |-> 0, begin |-> 0, leave |-> 0, mapstr |-> 0, pending |-> 0]]
    /\ last_choice = [user |-> 0, choices |-> <<>>, res |-> <<>>]
    /\ log = {}

\* No draft is run turn by turn.
NoSnake == [turn |-> 0, first |-> 0, shift |-> 0, start |-> 0, step |-> 0]

LibIdle ==
    /\ hx = NoCall
    /\ mr = NoCall
    /\ call = NoCall
    /\ snake = NoSnake
    /\ BotIdle

NoRebalance == [raised |-> "no call", value |-> <<>>]

GenIdle ==
    /\ tileset = "None"
    /\ slice_rebalancer = "None"
    /\ args = "None"
    /\ os_entropy = 0
    /\ pc = "idle"
    /\ i_try_global = 0
    /\ rng = 0
    /\ raw_draft = "None"
    /\ rb = NoFrame
    /\ caught = <<>>
    /\ rebalance_result = NoRebalance
    /\ result = NoResult
    /\ run = 1
    /\ first = NoResult

DraftInit ==
    /\ draft = GeneratedDraft
    /\ raised = "no call"
    /\ tmap = NoMap
    /\ GenIdle
    /\ LibIdle

ApplyChoice(player_num, choice_name) ==
    LET r == apply_player_choice(draft, player_num, choice_name)
    IN  /\ draft' = r.self
        /\ raised' = r.raised
        /\ tmap' = NoMap
        /\ UNCHANGED <<gen_vars, lib_vars>>

DraftNext == \E player_num \in PlayerNums, choice_name \in ChoiceNames :
                ApplyChoice(player_num, choice_name)

SpecDraft == DraftInit /\ [][DraftNext]_vars

-----------------------------------------------------------------------------
(* Claims about the player choices, checked under SpecDraft. *)

Injective(d) == \A a, b \in DOMAIN d : d[a] = d[b] => a = b

Remove(d, k) == [x \in DOMAIN d \ {k} |-> d[x]]

\* C1: in every reachable draft state, apply_player_choice with a label that
\* is not a key of available_player_choices(player) at that moment raises
\* ValueError (UnknownChoice) and returns the state exactly as it was.
C1_UnknownChoiceRejected ==
    \A player_num \in PlayerNums, choice_name \in ChoiceNames :
        choice_name \notin DOMAIN available_player_choices(draft, player_num)
        => /\ apply_player_choice(draft, player_num, choice_name).raised = "ValueError"
           /\ apply_player_choice(draft, player_num, choice_name).self = draft

\* a call was rejected in a state where choices had already been made
C1_Witness ==
    /\ raised = "ValueError"
    /\ DOMAIN draft.player_order # {}
    /\ DOMAIN draft.player_factions # {}

\* C2: every key of the seat, slice and faction maps lies in [0, n_players).
C2_KeysInRange ==
    /\ DOMAIN draft.player_order \subseteq 0..(draft.n_players - 1)
    /\ DOMAIN draft.player_slices \subseteq 0..(draft.n_players - 1)
    /\ DOMAIN draft.player_factions \subseteq 0..(draft.n_players - 1)

OfferedTypes(self, player_num) ==
    LET av == available_player_choices(self, player_num)
    IN  {av[l].type : l \in DOMAIN av}

Kept(before, after, player_num) ==
    /\ player_num \in DOMAIN after
    /\ after[player_num] = before[player_num]

\* C4: once a player has a seat (a slice, a faction), no later call changes
\* or removes it, and the player is offered no seat (slice, faction) again.
C4_ChoiceIsFinal ==
    [][ /\ \A p \in DOMAIN draft.player_order :
              /\ Kept(draft.player_order, draft'.player_order, p)
              /\ "int" \notin OfferedTypes(draft', p)
        /\ \A p \in DOMAIN draft.player_slices :
              /\ Kept(draft.player_slices, draft'.player_slices, p)
              /\ "MiltyMapSlice" \notin OfferedTypes(draft', p)
        /\ \A p \in DOMAIN draft.player_factions :
              /\ Kept(draft.player_factions, draft'.player_factions, p)
              /\ "Faction" \notin OfferedTypes(draft', p) ]_vars

\* a player with a seat and a slice saw a further call rejected
C4_Witness ==
    /\ raised = "ValueError"
    /\ \E p \in DOMAIN draft.player_order : p \in DOMAIN draft.player_slices

\* C5: is_complete is true exactly when each of the three maps has n_players
\* entries, and taking any one entry out of a complete state makes it false.
C5_CompleteIffAllFull ==
    /\ is_complete(draft) <=>
          /\ Cardinality(DOMAIN draft.player_order) = draft.n_players
          /\ Cardinality(DOMAIN draft.player_slices) = draft.n_players
          /\ Cardinality(DOMAIN draft.player_factions) = draft.n_players
    /\ is_complete(draft) =>
          /\ \A k \in DOMAIN draft.player_order :
                ~is_complete([draft EXCEPT !.player_order = Remove(@, k)])
          /\ \A k \in DOMAIN draft.player_slices :
                ~is_complete([draft EXCEPT !.player_slices = Remove(@, k)])
          /\ \A k \in DOMAIN draft.player_factions :
                ~is_complete([draft EXCEPT !.player_factions = Remove(@, k)])

\* all seats, slices and factions of the players 0..n_players-1 are assigned
C5_Witness ==
    /\ DOMAIN draft.player_order = 0..(n_players - 1)
    /\ DOMAIN draft.player_slices = 0..(n_players - 1)
    /\ DOMAIN draft.player_factions = 0..(n_players - 1)
    /\ is_complete(draft)

-----------------------------------------------------------------------------
(* One call of SliceRebalancer.make_generation, step by step, and its      *)
(* repetition with the same arguments.                                     *)

\* The tile sets of the calls: one in the style of the base game with a tile
\* to spare, one with a blue tile too few, one whose blue tiles are all alike.
TileSetBase == TileSet(n_blues * n_players + 1, n_reds * n_players, n_factions)

TileSetShort == TileSet(n_blues * n_players - 1, n_reds * n_players, n_factions)

TileSetFlat ==
    [TileSetBase EXCEPT
        !.blue_tiles = [i \in 1..(n_blues * n_players) |->
                          Tile(19 + i, "None", "NO_WORMHOLE", "NO_ANOMALY",
                               <<Planet(2, 1, "NO_TECH")>>)]]

TileSets == {TileSetBase, TileSetShort, TileSetFlat}

\* The rebalancers of the calls: the default (min_value 9), the one the lobby
\* builds (9, and 4, 1, 4, 1 for the other quantities) and a modest one.
Rebalancers ==
    {SliceRebalancer(180, {}, {}, {}, {}),
     SliceRebalancer(180, {20}, {20}, {4}, {4}),
     SliceRebalancer(150, {}, {}, {3}, {})}

Seeds == {SeedNone} \cup {SeedInt(n) : n \in 0..MaxSeed}

Entropy == {17, 200}

GenInit ==
    /\ draft = GeneratedDraft
    /\ raised = "no call"
    /\ tmap = NoMap
    /\ tileset \in TileSets
    /\ slice_rebalancer \in Rebalancers
    /\ args \in [seed : Seeds,
                 retries_global : 0..MaxRetriesGlobal,
                 retries_gen : 0..MaxRetriesGen,
                 retries_rebalance : 0..MaxTries]
    /\ os_entropy \in Entropy
    /\ pc = "call"
    /\ i_try_global = 0
    /\ rng = 0
    /\ raw_draft = "None"
    /\ rb = NoFrame
    /\ caught = <<>>
    /\ rebalance_result = NoRebalance
    /\ result = NoResult
    /\ run = 1
    /\ first = NoResult
    /\ LibIdle

\* except Exception: log the failure and go on with the next global try
Except(exc) ==
    /\ caught' = Append(caught, exc)
    /\ i_try_global' = i_try_global + 1
    /\ pc' = "gen_loop"

\* make_generation, lines 677-683: convert the seed to the rng
GenEnter ==
    /\ pc = "call"
    /\ rng' = rng_of_seed(args.seed, os_entropy)
    /\ pc' = "gen_loop"
    /\ UNCHANGED <<draft_vars, lib_vars, tileset, slice_rebalancer, args, os_entropy,
                   i_try_global, raw_draft, rb, caught, rebalance_result,
                   result, run, first>>

\* one pass of the for loop up to the rebalance call: make_random
GenAttempt ==
    /\ pc = "gen_loop"
    /\ i_try_global < args.retries_global
    /\ LET r == make_random(tileset, SeedRandom(rng), os_entropy,
                            n_players, n_reds, n_blues, args.retries_gen)
       IN  IF r.raised = "None"
           THEN /\ raw_draft' = r.res
                /\ rng' = r.rng
                /\ pc' = "rebalance"
                /\ UNCHANGED <<caught, i_try_global>>
           ELSE /\ Except(r.raised)
                /\ rng' = seed_after_make_random(tileset, SeedRandom(rng), os_entropy,
                                                 n_players, n_reds, n_blues,
                                                 args.retries_gen)
                /\ UNCHANGED raw_draft
    /\ UNCHANGED <<draft_vars, lib_vars, tileset, slice_rebalancer, args, os_entropy,
                   rb, rebalance_result, result, run, first>>

\* the else clause of the for loop: every global try has failed
GenExhausted ==
    /\ pc = "gen_loop"
    /\ i_try_global >= args.retries_global
    /\ result' = [raised |-> "RuntimeError", value |-> "None"]
    /\ pc' = "done"
    /\ UNCHANGED <<draft_vars, lib_vars, tileset, slice_rebalancer, args, os_entropy,
                   i_try_global, rng, raw_draft, rb, caught, rebalance_result,
                   run, first>>

\* rebalance, lines 640-649: clone the rng, copy the slices
RebalanceEnter ==
    /\ pc = "rebalance"
    /\ rb' = [NoFrame EXCEPT !.rng = rng_of_seed(SeedRandom(rng), os_entropy),
                             !.slices = raw_draft.slices,
                             !.rng_obj = rng_object(SeedRandom(rng)),
                             !.slices_obj = slices_object(raw_draft)]
    /\ pc' = "rb_loop"
    /\ UNCHANGED <<draft_vars, lib_vars, tileset, slice_rebalancer, args, os_entropy,
                   i_try_global, rng, raw_draft, caught, rebalance_result,
                   result, run, first>>

\* A draw of rebalance's rng leaves it in this state: make_generation's rng
\* moves with it only if the two are one object.
DrawnTo(state) == rng' = IF rb.rng_obj = "seed" THEN state ELSE rng

\* A swap leaves rebalance's slices like this: the slices of raw_draft
\* change with them only if they are the same objects.
SwappedTo(slices) ==
    raw_draft' = IF rb.slices_obj = "original"
                 THEN [raw_draft EXCEPT !.slices = slices]
                 ELSE raw_draft

\* _random_step up to the call of _swap_random_blue_tiles, or to its
\* return False, on which rebalance leaves its loop
RandomStep ==
    /\ pc = "rb_loop"
    /\ rb.i_try < args.retries_rebalance
    /\ LET to_fix   == shuffle(to_fix_list(slice_rebalancer), rb.rng)
           qty_name == first_to_fix(slice_rebalancer, rb.slices, to_fix.value, 1)
       IN  /\ IF qty_name = "None"
              THEN /\ rb' = [rb EXCEPT !.rng = to_fix.rng]
                   /\ pc' = "rb_return"
              ELSE /\ rb' = [rb EXCEPT !.rng = to_fix.rng,
                                       !.smaller = sl_order_first(rb.slices, qty_name),
                                       !.larger = sl_order_last(rb.slices, qty_name),
                                       !.qty_name = qty_name]
                   /\ pc' = "swap"
           /\ DrawnTo(to_fix.rng)
    /\ UNCHANGED <<draft_vars, lib_vars, tileset, slice_rebalancer, args, os_entropy,
                   i_try_global, raw_draft, caught, rebalance_result,
                   result, run, first>>

\* the else clause of rebalance's for loop: max_tries steps, each a swap
RebalanceExhausted ==
    /\ pc = "rb_loop"
    /\ rb.i_try >= args.retries_rebalance
    /\ rebalance_result' = [raised |-> "RuntimeError", value |-> rb.slices]
    /\ Except("RuntimeError")
    /\ UNCHANGED <<draft_vars, lib_vars, tileset, slice_rebalancer, args, os_entropy,
                   rng, raw_draft, rb, result, run, first>>

\* one pass of the while True loop of _swap_random_blue_tiles
SwapDraw ==
    /\ pc = "swap"
    /\ LET t_small == choice(tiles(rb.slices[rb.smaller]), rb.rng)
           t_large == choice(tiles(rb.slices[rb.larger]), t_small.rng)
           swapped == swap_tile(rb.slices[rb.smaller], t_small.value, t_large.value)
           slices1 == [rb.slices EXCEPT ![rb.smaller] = swapped.value]
           back    == swap_tile(slices1[rb.larger], t_large.value, t_small.value)
       IN  IF Len(t_small.value.planets) = 0 \/ Len(t_large.value.planets) = 0
           THEN \* continue
                /\ rb' = [rb EXCEPT !.rng = t_large.rng]
                /\ DrawnTo(t_large.rng)
                /\ UNCHANGED <<pc, caught, i_try_global, rebalance_result, raw_draft>>
           ELSE IF get_tile_quantity(t_small.value, rb.qty_name)
                     < get_tile_quantity(t_large.value, rb.qty_name)
           THEN IF swapped.raised # "None" \/ back.raised # "None"
                THEN /\ rebalance_result' = [raised |-> "ValueError", value |-> rb.slices]
                     /\ Except("ValueError")
                     /\ DrawnTo(t_large.rng)
                     /\ UNCHANGED <<rb, raw_draft>>
                ELSE \* break, return True: the next step of rebalance's loop
                     /\ rb' = [rb EXCEPT !.rng = t_large.rng,
                                         !.slices = [slices1 EXCEPT ![rb.larger] = back.value],
                                         !.i_try = @ + 1]
                     /\ pc' = "rb_loop"
                     /\ DrawnTo(t_large.rng)
                     /\ SwappedTo([slices1 EXCEPT ![rb.larger] = back.value])
                     /\ UNCHANGED <<caught, i_try_global, rebalance_result>>
           ELSE \* the loop goes round
                /\ rb' = [rb EXCEPT !.rng = t_large.rng]
                /\ DrawnTo(t_large.rng)
                /\ UNCHANGED <<pc, caught, i_try_global, rebalance_result, raw_draft>>
    /\ UNCHANGED <<draft_vars, lib_vars, tileset, slice_rebalancer, args, os_entropy,
                   result, run, first>>

\* rebalance, line 662: build the MiltyDraftState it returns, and
\* make_generation's break and return
RebalanceReturn ==
    /\ pc = "rb_return"
    /\ LET d == MiltyDraftState(rb.slices, raw_draft.mecatol)
       IN  IF d.raised = "None"
           THEN /\ rebalance_result' = [raised |-> "None", value |-> rb.slices]
                /\ result' = [raised |-> "None", value |-> d.value]
                /\ pc' = "done"
                /\ UNCHANGED <<caught, i_try_global>>
           ELSE /\ rebalance_result' = [raised |-> d.raised, value |-> rb.slices]
                /\ Except(d.raised)
                /\ UNCHANGED result
    /\ UNCHANGED <<draft_vars, lib_vars, tileset, slice_rebalancer, args, os_entropy,
                   rng, raw_draft, rb, run, first>>

\* The caller repeats the finished call with the same arguments, at a later
\* moment (the operating system's entropy has moved on).
Rerun ==
    /\ pc = "done"
    /\ run = 1
    /\ first' = result
    /\ run' = 2
    /\ os_entropy' \in Entropy \ {os_entropy}
    /\ pc' = "call"
    /\ i_try_global' = 0
    /\ rng' = 0
    /\ raw_draft' = "None"
    /\ rb' = NoFrame
    /\ caught' = <<>>
    /\ rebalance_result' = NoRebalance
    /\ result' = NoResult
    /\ UNCHANGED <<draft_vars, lib_vars, tileset, slice_rebalancer, args>>

GenNext ==
    \/ GenEnter
    \/ GenAttempt
    \/ GenExhausted
    \/ RebalanceEnter
    \/ RandomStep
    \/ RebalanceExhausted
    \/ SwapDraw
    \/ RebalanceReturn
    \/ Rerun

SpecGen == GenInit /\ [][GenNext]_vars

-----------------------------------------------------------------------------
(* Claims about generation and rebalancing, checked under SpecGen. *)

\* No wormhole other than NO_WORMHOLE is on two of the 5 tiles of a slice.
WormholesUnique(slices) ==
    \A i \in 1..Len(slices) : \A a, b \in 1..5 :
        (a # b /\ tiles(slices[i])[a].wormhole = tiles(slices[i])[b].wormhole)
        => tiles(slices[i])[a].wormhole = "NO_WORMHOLE"

\* C6: the draft state make_random returned, the slices a rebalance call
\* returned and the draft state make_generation returned have, in every
\* slice, no wormhole class other than NO_WORMHOLE on more than one tile.
C6_ReturnedSlicesValid ==
    /\ pc \in {"rebalance", "rb_loop", "swap", "rb_return"}
          => WormholesUnique(raw_draft.slices)
    /\ rebalance_result.raised = "None" => WormholesUnique(rebalance_result.value)
    /\ result.raised = "None" => WormholesUnique(result.value.slices)

\* make_generation returned a draft after a rebalanced candidate with a
\* doubled wormhole had been turned down
C6_Witness ==
    /\ pc = "done"
    /\ result.raised = "None"
    /\ \E k \in 1..Len(caught) : caught[k] = "ValidationError"

\* C7: a rebalance call ends in one of two ways: it returns slices that meet
\* every active threshold, or it raises the RuntimeError of its exhausted
\* loop (RebalanceExhausted); it ends with no other error.
C7_TwoOutcomes ==
    /\ rebalance_result.raised \in {"no call", "None", "RuntimeError"}
    /\ rebalance_result.raised = "None"
          => ThresholdsMet(slice_rebalancer, rebalance_result.value)

\* a pair of tiles on which the while loop of _swap_random_blue_tiles breaks
CanSwap(smaller, larger, qty_name) ==
    \E a, b \in 1..5 :
        /\ Len(tiles(smaller)[a].planets) # 0
        /\ Len(tiles(larger)[b].planets) # 0
        /\ get_tile_quantity(tiles(smaller)[a], qty_name)
              < get_tile_quantity(tiles(larger)[b], qty_name)

\* C8: every iteration of rebalance terminates: whenever the call is in the
\* while loop of _swap_random_blue_tiles, a draw exists that ends the loop.
C8_IterationTerminates ==
    pc = "swap" => CanSwap(rb.slices[rb.smaller], rb.slices[rb.larger], rb.qty_name)

\* C9: make_generation goes on to another attempt only after the
\* RuntimeError of an exhausted make_random or rebalance; any other error
\* ends the call at once.
C9_OnlyExhaustionRetried ==
    \A k \in 1..Len(caught) : caught[k] = "RuntimeError"

-----------------------------------------------------------------------------
(* hexes.py: HexCoord, a frozen root model over tuple[int, int, int].  A   *)
(* HexCoord value is its root, a triple <<q, r, s>>.                       *)

\* the largest |component| of the tuples handed to the constructor
MaxCoord == 2
\* the largest distance handed to get_neighborhood
MaxDist == 2
\* nearest_hex is handed floats k / 4 with |k| up to this many quarters
\* (such floats are exact, and the halves among them are the ties of round)
MaxQuarter == 6

Abs(x) == IF x < 0 THEN -x ELSE x

Max2(a, b) == IF a >= b THEN a ELSE b

Min2(a, b) == IF a <= b THEN a ELSE b

\* _set_third_coord with the sign of r slipped
set_third_coord_sign(data) ==
    IF Len(data) = 2 THEN <<data[1], data[2], -(data[1] - data[2])>> ELSE data

\* _set_third_coord (mode "before"): a 2-tuple gets its third coordinate
set_third_coord(data) ==
    IF Len(data) = 2 THEN <<data[1], data[2], -(data[1] + data[2])>> ELSE data

\* _check_values that tests q + r - s
check_values_sign(root) ==
    IF root[1] + root[2] - root[3] # 0 THEN "ValueError" ELSE "None"

\* _check_values (mode "after"): what the validator raises
check_values(root) ==
    IF root[1] + root[2] + root[3] # 0 THEN "ValueError" ELSE "None"

\* HexCoord(data): the validated construction
HexCoord(data) ==
    LET root == set_third_coord(data)
    IN  IF check_values(root) # "None"
        THEN [raised |-> check_values(root), value |-> "None"]
        ELSE [raised |-> "None", value |-> root]

HexCoord_add(self, rhs) ==
    HexCoord(<<self[1] + rhs[1], self[2] + rhs[2], self[3] + rhs[3]>>)

HexCoord_sub(self, rhs) ==
    HexCoord(<<self[1] - rhs[1], self[2] - rhs[2], self[3] - rhs[3]>>)

HexCoord_neg(self) == HexCoord(<<-self[1], -self[2], -self[3]>>)

\* vector_length
vector_length(self) == Max2(Abs(self[1]), Max2(Abs(self[2]), Abs(self[3])))

\* rotate_clockwise_60: (q, r, s) -> (-r, -s, -q).  hexes.py does not hold
\* the method; milty.py and gen_helper.py call it.
rotate_clockwise_60(self) == HexCoord(<<-self[2], -self[3], -self[1]>>)

\* range(a, b) as a sequence
PyRange(a, b) == [i \in 1..Max2(b - a, 0) |-> a + i - 1]

\* the inner loop of get_neighborhood for one q
RECURSIVE neighborhood_r(_, _, _, _)
neighborhood_r(q, rs, k, res) ==
    IF k > Len(rs) THEN res
    ELSE neighborhood_r(q, rs, k + 1,
                        Append(res, HexCoord(<<q, rs[k], -q - rs[k]>>).value))

\* the outer loop of get_neighborhood
RECURSIVE neighborhood_q(_, _, _, _)
neighborhood_q(N, qs, k, res) ==
    IF k > Len(qs) THEN res
    ELSE neighborhood_q(N, qs, k + 1,
            neighborhood_r(qs[k],
                           PyRange(Max2(-N, -qs[k] - N), Min2(N, -qs[k] + N) + 1),
                           1, res))

\* get_neighborhood(distance)
get_neighborhood(self, distance) ==
    neighborhood_q(distance, PyRange(-distance, distance + 1), 1, <<>>)

\* round(k / 4): to the nearest integer, a half to the even one
round4(k) ==
    LET fl == k \div 4
        rem == k % 4
    IN  IF rem < 2 THEN fl
        ELSE IF rem > 2 THEN fl + 1
        ELSE IF fl % 2 = 0 THEN fl ELSE fl + 1

\* nearest_hex that only rounds
nearest_hex_rounded(qf, rf, sf) == HexCoord(<<round4(qf), round4(rf), round4(sf)>>)

\* nearest_hex(qf, rf, sf), the floats given in quarters
nearest_hex(qf, rf, sf) ==
    LET q == round4(qf)
        r == round4(rf)
        s == round4(sf)
        qd == Abs(4 * q - qf)
        rd == Abs(4 * r - rf)
        sd == Abs(4 * s - sf)
    IN  IF qd > rd /\ qd > sd THEN HexCoord(<<-(r + s), r, s>>)
        ELSE IF rd > sd THEN HexCoord(<<q, -(q + s), s>>)
        ELSE HexCoord(<<q, r, -(q + r)>>)

\* the rings get_spiral is followed through
MaxRing == 3

\* HEX_UNIT_VECTORS, lines 137-140
HEX_UNIT_VECTORS ==
    <<(<<1, 0, -1>>), (<<1, -1, 0>>), (<<0, -1, 1>>),
      (<<-1, 0, 1>>), (<<-1, 1, 0>>), (<<0, 1, -1>>)>>

\* the number of coordinates within distance k of a coordinate
DiskSize(k) == 3 * k * (k + 1) + 1

\* v taken k times
HexCoord_times(v, k) == <<k * v[1], k * v[2], k * v[3]>>

\* The corner of ring k the walk reaches after this many sides: the walk
\* begins at k times the fifth unit vector and takes k steps along each unit
\* vector in turn.
RECURSIVE ring_corner(_, _)
ring_corner(k, side) ==
    IF side = 0 THEN HexCoord_times(HEX_UNIT_VECTORS[5], k)
    ELSE HexCoord_add(ring_corner(k, side - 1),
                      HexCoord_times(HEX_UNIT_VECTORS[side], k)).value

\* a walk around ring k that turns back to its beginning after three sides
spiral_ring_half(k, i) ==
    HexCoord_add(ring_corner(k, (i \div k) % 3),
                 HexCoord_times(HEX_UNIT_VECTORS[((i \div k) % 3) + 1], i % k)).value

\* the i-th coordinate (from 0) of ring k: i % k steps past a corner
spiral_ring(k, i) ==
    HexCoord_add(ring_corner(k, i \div k),
                 HexCoord_times(HEX_UNIT_VECTORS[(i \div k) + 1], i % k)).value

\* the ring the n-th coordinate (from 0) of the spiral lies on
RECURSIVE ring_of(_, _)
ring_of(n, k) == IF n < DiskSize(k) THEN k ELSE ring_of(n, k + 1)

\* the n-th coordinate (from 0) of get_spiral(): the origin, then ring 1,
\* ring 2, ... each walked by spiral_ring
spiral_item(n) ==
    IF n = 0 THEN <<0, 0, 0>>
    ELSE LET k == ring_of(n, 0)
         IN  spiral_ring(k, n - DiskSize(k - 1))

\* get_spiral(): a fresh generator, nothing yielded yet
get_spiral == [n |-> 0, out |-> <<>>]

\* next(gen): the generator yields its next coordinate
spiral_next(gen) == [n |-> gen.n + 1, out |-> Append(gen.out, spiral_item(gen.n))]

\* zip(gen, xs): the next k coordinates the generator yields
spiral_take(gen, k) == [nth \in 1..k |-> spiral_item(gen.n + nth - 1)]

-----------------------------------------------------------------------------
(* The HexCoord operations called one after another: a calculation begins  *)
(* with a value built by the constructor or by nearest_hex, which is then  *)
(* added to, subtracted from, negated, rotated, or asked for its           *)
(* neighborhood.                                                           *)

Coords == (-MaxCoord)..MaxCoord

Tuples == (Coords \X Coords) \cup (Coords \X Coords \X Coords)

\* the HexCoord values the constructor builds from Tuples
Built == {HexCoord(t).value : t \in {u \in Tuples : HexCoord(u).raised = "None"}}

Quarters == (-MaxQuarter)..MaxQuarter

CoordOps == {"HexCoord", "__add__", "__sub__", "__neg__", "rotate_clockwise_60",
             "nearest_hex"}

\* hx holds a HexCoord value
HasCoord == hx.op \in CoordOps /\ hx.raised = "None"

Called(op, arguments, r) ==
    hx' = [op |-> op, args |-> arguments, raised |-> r.raised, value |-> r.value]

HexFrame == UNCHANGED <<draft_vars, gen_vars, mr, call, snake, bot_vars>>

HexInit ==
    /\ draft = GeneratedDraft
    /\ raised = "no call"
    /\ tmap = NoMap
    /\ GenIdle
    /\ LibIdle

HexConstruct(data) ==
    /\ hx.op = "None"
    /\ Called("HexCoord", <<data>>, HexCoord(data))
    /\ HexFrame

HexAdd(rhs) ==
    /\ HasCoord
    /\ vector_length(hx.value) <= MaxCoord
    /\ Called("__add__", <<hx.value, rhs>>, HexCoord_add(hx.value, rhs))
    /\ HexFrame

HexSub(rhs) ==
    /\ HasCoord
    /\ vector_length(hx.value) <= MaxCoord
    /\ Called("__sub__", <<hx.value, rhs>>, HexCoord_sub(hx.value, rhs))
    /\ HexFrame

HexNeg ==
    /\ HasCoord
    /\ Called("__neg__", <<hx.value>>, HexCoord_neg(hx.value))
    /\ HexFrame

\* rotate_clockwise_60 on the value at hand; args is the list of the values
\* rotated so far, the first of them the value the rotations began with
HexRotate ==
    /\ HasCoord
    /\ IF hx.op = "rotate_clockwise_60"
       THEN /\ Len(hx.args) < 6
            /\ Called("rotate_clockwise_60", Append(hx.args, hx.value),
                      rotate_clockwise_60(hx.value))
       ELSE Called("rotate_clockwise_60", <<hx.value>>, rotate_clockwise_60(hx.value))
    /\ HexFrame

HexNeighborhood(distance) ==
    /\ HasCoord
    /\ Called("get_neighborhood", <<hx.value, distance>>,
              [raised |-> "None", value |-> get_neighborhood(hx.value, distance)])
    /\ HexFrame

HexNearest(qf, rf, sf) ==
    /\ hx.op = "None"
    /\ Called("nearest_hex", <<qf, rf, sf>>, nearest_hex(qf, rf, sf))
    /\ HexFrame

\* get_spiral() is called: one more generator, next to those under way
HexSpiral ==
    /\ \/ hx.op = "None"
       \/ hx.op = "get_spiral" /\ Len(hx.value) < 2
    /\ hx' = [op |-> "get_spiral", args |-> <<>>, raised |-> "None",
              value |-> Append(IF hx.op = "None" THEN <<>> ELSE hx.value, get_spiral)]
    /\ HexFrame

\* next() on the g-th generator
HexSpiralNext(g) ==
    /\ hx.op = "get_spiral"
    /\ g \in 1..Len(hx.value)
    /\ hx.value[g].n < DiskSize(MaxRing)
    /\ hx' = [hx EXCEPT !.value[g] = spiral_next(hx.value[g])]
    /\ HexFrame

HexNext ==
    \/ \E data \in Tuples : HexConstruct(data)
    \/ \E rhs \in Built : HexAdd(rhs)
    \/ \E rhs \in Built : HexSub(rhs)
    \/ HexNeg
    \/ HexRotate
    \/ \E distance \in 0..MaxDist : HexNeighborhood(distance)
    \/ \E qf, rf, sf \in Quarters : HexNearest(qf, rf, sf)
    \/ HexSpiral
    \/ \E g \in 1..2 : HexSpiralNext(g)

SpecHex == HexInit /\ [][HexNext]_vars

ZeroSum(c) == c[1] + c[2] + c[3] = 0

\* C17: every HexCoord value satisfies q + r + s = 0: a 2-tuple (q, r) gives
\* (q, r, -(q + r)), a 3-tuple with a non-zero sum is rejected with
\* ValueError (InvalidCoordinate), and +, - and negation work component by
\* component and give valid coordinates.
C17_CoordsZeroSum ==
    /\ HasCoord => ZeroSum(hx.value)
    /\ (hx.op = "HexCoord" /\ Len(hx.args[1]) = 2) =>
          /\ hx.raised = "None"
          /\ hx.value = <<hx.args[1][1], hx.args[1][2],
                          -(hx.args[1][1] + hx.args[1][2])>>
    /\ (hx.op = "HexCoord" /\ Len(hx.args[1]) = 3) =>
          IF ZeroSum(hx.args[1])
          THEN hx.raised = "None" /\ hx.value = hx.args[1]
          ELSE hx.raised = "ValueError"
    /\ hx.op = "__add__" =>
          /\ hx.raised = "None"
          /\ \A i \in 1..3 : hx.value[i] = hx.args[1][i] + hx.args[2][i]
    /\ hx.op = "__sub__" =>
          /\ hx.raised = "None"
          /\ \A i \in 1..3 : hx.value[i] = hx.args[1][i] - hx.args[2][i]
    /\ hx.op = "__neg__" =>
          /\ hx.raised = "None"
          /\ \A i \in 1..3 : hx.value[i] = -hx.args[1][i]

\* a difference of two coordinates, the first one built from a 2-tuple
C17_Witness ==
    /\ hx.op = "__sub__"
    /\ hx.raised = "None"
    /\ hx.args[1] # <<0, 0, 0>>
    /\ hx.args[2] # <<0, 0, 0>>
    /\ hx.value # <<0, 0, 0>>

\* C18: six applications of rotate_clockwise_60 give back the coordinate
\* they began with; every value on the way is a valid coordinate as far
\* from the origin as the first; and unless the first is the origin, the
\* six values of the round are pairwise different.
C18_SixRotations ==
    hx.op = "rotate_clockwise_60" =>
        /\ hx.raised = "None"
        /\ LET orbit == Append(hx.args, hx.value)
           IN  /\ \A i \in 1..Len(orbit) :
                     /\ ZeroSum(orbit[i])
                     /\ vector_length(orbit[i]) = vector_length(orbit[1])
               /\ Len(orbit) = 7 => orbit[7] = orbit[1]
               /\ orbit[1] # <<0, 0, 0>> =>
                     \A i, j \in 1..Min2(Len(orbit), 6) : orbit[i] = orbit[j] => i = j

\* a coordinate off the origin has been rotated six times
C18_Witness ==
    /\ hx.op = "rotate_clockwise_60"
    /\ hx.raised = "None"
    /\ Len(hx.args) = 6
    /\ hx.args[1] # <<0, 0, 0>>

\* every zero-sum triple near enough to matter
CubeSide == (-(2 * MaxCoord + MaxDist + 1))..(2 * MaxCoord + MaxDist + 1)

Cube == {c \in CubeSide \X CubeSide \X CubeSide : ZeroSum(c)}

\* C19: c.get_neighborhood(d) is the list of the coordinates at distance at
\* most d from c, c among them, each once: 3d(d+1)+1 coordinates.
C19_NeighborhoodAroundSelf ==
    hx.op = "get_neighborhood" =>
        LET c == hx.args[1]
            d == hx.args[2]
        IN  /\ {hx.value[i] : i \in 1..Len(hx.value)}
                  = {x \in Cube : vector_length(<<x[1] - c[1], x[2] - c[2], x[3] - c[3]>>) <= d}
            /\ Len(hx.value) = 3 * d * (d + 1) + 1
            /\ \A i, j \in 1..Len(hx.value) : hx.value[i] = hx.value[j] => i = j

\* C20: nearest_hex returns a valid coordinate; it keeps the rounded value
\* on every axis but one, and that one has the largest rounding error (or
\* shares it); three integers with zero sum come back as they are.
C20_NearestHexValid ==
    hx.op = "nearest_hex" =>
        /\ hx.raised = "None"
        /\ ZeroSum(hx.value)
        /\ LET err(i) == Abs(4 * round4(hx.args[i]) - hx.args[i])
           IN  \E a \in 1..3 :
                  /\ \A i \in 1..3 : err(i) <= err(a)
                  /\ \A i \in (1..3) \ {a} : hx.value[i] = round4(hx.args[i])
        /\ ((\A i \in 1..3 : hx.args[i] % 4 = 0)
              /\ hx.args[1] + hx.args[2] + hx.args[3] = 0)
           => \A i \in 1..3 : 4 * hx.value[i] = hx.args[i]

\* nearest_hex was given a tie (two halves) and moved an axis off its
\* rounded value
C20_Witness ==
    /\ hx.op = "nearest_hex"
    /\ hx.raised = "None"
    /\ \E i \in 1..3 : hx.args[i] % 4 = 2
    /\ \E i \in 1..3 : hx.value[i] # round4(hx.args[i])

\* the coordinates a traversal has yielded
Yielded(g) == hx.value[g].out

\* C21: every traversal of get_spiral() begins at the origin and goes ring
\* by ring: the coordinate yielded at place i lies on the ring of place i,
\* so every coordinate of ring k comes before any of ring k+1; no coordinate
\* comes twice; the first 3k(k+1)+1 coordinates are the coordinates within
\* distance k of the origin (37 of them for k = 3); and two traversals yield
\* the same coordinates at the same places.
C21_SpiralRingByRing ==
    hx.op = "get_spiral" =>
        /\ \A g \in 1..Len(hx.value) :
              LET out == Yielded(g)
              IN  /\ Len(out) > 0 => out[1] = <<0, 0, 0>>
                  /\ \A i \in 1..Len(out) :
                        /\ ZeroSum(out[i])
                        /\ vector_length(out[i]) = ring_of(i - 1, 0)
                  /\ \A i, j \in 1..Len(out) : out[i] = out[j] => i = j
                  /\ \A k \in 0..MaxRing :
                        Len(out) >= DiskSize(k) =>
                           {out[i] : i \in 1..DiskSize(k)}
                              = {c \in Cube : vector_length(c) <= k}
        /\ \A g, h \in 1..Len(hx.value) :
              \A i \in 1..Min2(Len(Yielded(g)), Len(Yielded(h))) :
                 Yielded(g)[i] = Yielded(h)[i]

\* two traversals, one through every ring, the other begun afresh and past
\* the first ring
C21_Witness ==
    /\ hx.op = "get_spiral"
    /\ Len(hx.value) = 2
    /\ Len(Yielded(1)) = DiskSize(MaxRing)
    /\ Len(Yielded(2)) > DiskSize(1)
    /\ Len(Yielded(2)) < DiskSize(MaxRing)

-----------------------------------------------------------------------------
(* milty.py: MiltyDraftState.make_random called on its own: the tile set,  *)
(* the seed (an int, None or a Random of the caller) and the retries are   *)
(* the caller's.                                                           *)

\* a tile set with just the tiles n_players slices take
TileSetExact == TileSet(n_blues * n_players, n_reds * n_players, n_players)

\* a tile set with 10 of every 18 blue tiles and 8 of every 12 red tiles the
\* slices take (10 blue and 8 red tiles for 6 players)
TileSetScenario ==
    TileSet((10 * n_blues * n_players) \div 18, (8 * n_reds * n_players) \div 12,
            n_players)

RandomTileSets == TileSets \cup {TileSetExact, TileSetScenario}

RandomSeeds == Seeds \cup {SeedRandom(n) : n \in 0..MaxSeed}

RandomInit ==
    /\ draft = GeneratedDraft
    /\ raised = "no call"
    /\ tmap = NoMap
    /\ GenIdle
    /\ LibIdle

MakeRandom(ts, seed, entropy, retries) ==
    /\ mr.op = "None"
    /\ LET r == make_random(ts, seed, entropy, n_players, n_reds, n_blues, retries)
       IN  mr' = [op     |-> "make_random",
                  args   |-> [tileset |-> ts, seed |-> seed, entropy |-> entropy,
                              retries |-> retries],
                  raised |-> r.raised,
                  value  |-> [res |-> r.res, rng |-> r.rng,
                              candidates |-> r.candidates,
                              seed_after |->
                                  seed_after_make_random(ts, seed, entropy, n_players,
                                                         n_reds, n_blues, retries)]]
    /\ UNCHANGED <<draft_vars, gen_vars, hx, call, snake, bot_vars>>

RandomNext ==
    \E ts \in RandomTileSets, seed \in RandomSeeds, entropy \in Entropy,
       retries \in (-1)..(MaxRetriesGen + 1) :
        MakeRandom(ts, seed, entropy, retries)

SpecRandom == RandomInit /\ [][RandomNext]_vars

\* the generator after k candidates in a row, the first drawn from state
RECURSIVE StateAfter(_, _, _)
StateAfter(ts, state, k) ==
    IF k = 0 THEN state
    ELSE build_candidate(ts, StateAfter(ts, state, k - 1),
                         n_players, n_reds, n_blues).rng

\* the candidate passes the validation of MiltyDraftState
Passes(slices, ts) == MiltyDraftState(slices, ts.mecatol).raised = "None"

\* C11: make_random with r retries builds at most r + 1 candidates, the
\* first from the seeded generator and each further one from the generator
\* as the candidate before left it; it returns the first candidate that
\* passes validation, and it raises the RuntimeError of exhaustion exactly
\* when r + 1 candidates were built and all failed validation.
C11_RetriesContinueStream ==
    mr.op = "make_random" =>
        LET ts    == mr.args.tileset
            most  == Max2(mr.args.retries + 1, 0)
            c     == mr.value.candidates
            start == rng_of_seed(mr.args.seed, mr.args.entropy)
        IN  /\ Len(c) <= most
            /\ \A k \in 1..Len(c) :
                  c[k] = build_candidate(ts, StateAfter(ts, start, k - 1),
                                         n_players, n_reds, n_blues).value
            /\ mr.raised = "None" =>
                  /\ Len(c) >= 1
                  /\ mr.value.res.slices = c[Len(c)]
                  /\ Passes(c[Len(c)], ts)
                  /\ \A k \in 1..(Len(c) - 1) : ~Passes(c[k], ts)
            /\ mr.raised = "RuntimeError" <=>
                  (Len(c) = most /\ \A k \in 1..Len(c) : ~Passes(c[k], ts))

\* make_random returned its third candidate
C11_Witness ==
    /\ mr.op = "make_random"
    /\ mr.raised = "None"
    /\ Len(mr.value.candidates) = 3

\* the scenario: the tile set with 10 of 18 blue and 8 of 12 red tiles
InScenario == mr.op = "make_random" /\ mr.args.tileset = TileSetScenario

SlicesOfFive(slices) ==
    /\ Len(slices) = n_players
    /\ \A i \in 1..Len(slices) : Len(tiles(slices[i])) = 5

C13_SlicesPartitionPools ==
    (/\ mr.op = "make_random"
     /\ mr.raised = "None"
     /\ Len(mr.args.tileset.red_tiles) >= n_reds * n_players
     /\ Len(mr.args.tileset.blue_tiles) >= n_blues * n_players) =>
        LET ts     == mr.args.tileset
            slices == mr.value.res.slices
            reds   == {ts.red_tiles[i] : i \in 1..Len(ts.red_tiles)}
            blues  == {ts.blue_tiles[i] : i \in 1..Len(ts.blue_tiles)}
        IN  /\ Len(slices) = n_players
            /\ \A i \in 1..Len(slices) :
                  /\ Cardinality({k \in 1..5 : tiles(slices[i])[k] \in reds}) = n_reds
                  /\ Cardinality({k \in 1..5 : tiles(slices[i])[k] \in blues}) = n_blues
            /\ \A i, j \in 1..Len(slices) : \A a, b \in 1..5 :
                  tiles(slices[i])[a] = tiles(slices[j])[b] => (i = j /\ a = b)

\* a draft from a tile set with a blue tile to spare, made at a retry
C13_Witness ==
    /\ mr.op = "make_random"
    /\ mr.raised = "None"
    /\ mr.args.tileset = TileSetBase
    /\ Len(mr.value.candidates) > 1

-----------------------------------------------------------------------------
(* What the generation leaves of its callers' objects. *)

-----------------------------------------------------------------------------
(* milty.py: MiltyMapSlice.to_tile_dict and MiltyDraftState.to_map.  A     *)
(* dict of cells is a function from HexCoord values to tiles.              *)

\* ti4_map.py: PlaceholderTile()
PlaceholderTile == [is_home |-> FALSE]

\* dict.update
Update(d, e) == [k \in (DOMAIN d) \cup (DOMAIN e) |-> IF k \in DOMAIN e THEN e[k] ELSE d[k]]

\* for _ in range(n): place_coord = place_coord.rotate_clockwise_60()
RECURSIVE rotations_of(_, _)
rotations_of(place_coord, n) ==
    IF n <= 0 THEN place_coord
    ELSE rotations_of(rotate_clockwise_60(place_coord).value, n - 1)

\* {hc.rotate_clockwise_60(): t for (hc, t) in res.items()}
rotated_dict(res) ==
    [k \in {rotate_clockwise_60(hc).value : hc \in DOMAIN res} |->
        res[CHOOSE hc \in DOMAIN res : rotate_clockwise_60(hc).value = k]]

RECURSIVE rotated_times(_, _)
rotated_times(res, n) ==
    IF n <= 0 THEN res ELSE rotated_times(rotated_dict(res), n - 1)

\* the six cells of a slice before rotation, lines 171-179
slice_cells(self) ==
    Put(Put(Put(Put(Put(Put(<<>>,
        <<0, -3, 3>>, IF self.home = "None" THEN PlaceholderTile ELSE self.home),
        <<-1, -2, 3>>, self.close_left),
        <<0, -2, 2>>, self.close_mid),
        <<1, -3, 2>>, self.close_right),
        <<-1, -1, 2>>, self.far_left),
        <<0, -1, 1>>, self.far_mid)

\* to_tile_dict(rotations)
to_tile_dict(self, rotations) == rotated_times(slice_cells(self), rotations)

\* the property player_homes
player_homes(self) ==
    [k \in DOMAIN self.player_factions |->
        self.faction_homes[self.player_factions[k] + 1]]

\* the property ApproxValue.human_description
human_description(av) ==
    Fmt2f(total(av)) \o " = "
    \o Fmt2f(av.eff_resources) \o " (" \o ToString(av.strict_resources) \o ") R + "
    \o Fmt2f(av.eff_influence) \o " (" \o ToString(av.strict_influence) \o ") I + "
    \o Fmt2f(av.misc) \o " E)"

\* to_map, lines 355-361: what is logged
to_map_log(self) ==
    (IF Cardinality(DOMAIN self.player_order) # self.n_players
     THEN <<"Player order is not fully set.">> ELSE <<>>)
    \o (IF Cardinality(DOMAIN self.player_slices) # self.n_players
        THEN <<"Player slices are not fully set.">> ELSE <<>>)
    \o (IF Cardinality(DOMAIN player_homes(self)) # self.n_players
        THEN <<"Player homes are not fully set.">> ELSE <<>>)

\* to_map that sets no placeholders beforehand
preset_homes_none(cells, z) == cells

\* to_map, lines 366-371: the homes of seats z-1, ..., 0 as placeholders
RECURSIVE preset_homes(_, _)
preset_homes(cells, z) ==
    IF z <= 0 THEN cells
    ELSE Put(preset_homes(cells, z - 1),
             rotations_of(<<0, -3, 3>>, z - 1), PlaceholderTile)

\* to_map, lines 375-404: what player ip adds to the cells and annotations
add_player(self, acc, ip) ==
    IF ip \notin DOMAIN self.player_order THEN acc
    ELSE
    LET name_i      == IF ip \in DOMAIN self.player_names
                       THEN self.player_names[ip]
                       ELSE "player_" \o ToString(ip)
        order_i     == self.player_order[ip]
        place_coord == rotations_of(<<0, -3, 3>>, order_i)
        has_slice   == ip \in DOMAIN self.player_slices
        slice_i     == self.slices[self.player_slices[ip] + 1]
        cells1      == IF has_slice
                       THEN Update(acc.cells, to_tile_dict(slice_i, order_i))
                       ELSE acc.cells
        annots1     == Append(acc.annotations, [cell |-> place_coord, text |-> name_i])
        annots2     == IF has_slice
                       THEN Append(annots1,
                                   [cell |-> place_coord,
                                    text |-> human_description(evaluate_slice(slice_i))])
                       ELSE annots1
    IN  [cells |-> IF ip \in DOMAIN player_homes(self)
                   THEN Put(cells1, place_coord, player_homes(self)[ip])
                   ELSE cells1,
         annotations |-> annots2]

\* the loop for ip in range(N), up to player ip - 1
RECURSIVE add_players(_, _, _)
add_players(self, acc, ip) ==
    IF ip <= 0 THEN acc
    ELSE add_player(self, add_players(self, acc, ip - 1), ip - 1)

\* to_map
to_map(self) ==
    LET N   == self.n_players
        acc == add_players(self,
                           [cells |-> preset_homes(<<>>, N), annotations |-> <<>>], N)
    IN  [raised |-> "None",
         cells |-> Put(acc.cells, <<0, 0, 0>>, self.mecatol),
         annotations |-> acc.annotations,
         log |-> to_map_log(self)]

-----------------------------------------------------------------------------
(* The draft while it is drawn as a map: any sequence of                   *)
(* apply_player_choice and to_map calls.                                   *)

ToMap ==
    /\ tmap = NoMap
    /\ tmap' = to_map(draft)
    /\ UNCHANGED <<draft, raised, gen_vars, lib_vars>>

MapNext == DraftNext \/ ToMap

SpecMap == DraftInit /\ [][MapNext]_vars

\* a coordinate turned clockwise by 60 degrees n times
RECURSIVE Turned(_, _)
Turned(c, n) == IF n = 0 THEN c ELSE Turned(<<-c[2], -c[3], -c[1]>>, n - 1)

Players == 0..(n_players - 1)

\* the map has the tile t at the coordinate c
HoldsAt(c, t) == c \in DOMAIN tmap.cells /\ tmap.cells[c] = t

\* C15: in the map of a draft, for each player with seat s and slice k the
\* five tiles of slice k lie at the slice's five coordinates turned s times;
\* the home of seat s, (0,-3,3) turned s times, holds the home tile of the
\* player's faction whenever the player has one; the origin holds Mecatol.
\* The players with a seat are the keys of player_order.
C15_SlicesAtSeats ==
    tmap.raised = "None" =>
        /\ \A ip \in DOMAIN draft.player_order :
              LET s == draft.player_order[ip]
              IN  /\ ip \in DOMAIN draft.player_slices =>
                        LET sl == draft.slices[draft.player_slices[ip] + 1]
                        IN  /\ HoldsAt(Turned(<<-1, -2, 3>>, s), sl.close_left)
                            /\ HoldsAt(Turned(<<0, -2, 2>>, s), sl.close_mid)
                            /\ HoldsAt(Turned(<<1, -3, 2>>, s), sl.close_right)
                            /\ HoldsAt(Turned(<<-1, -1, 2>>, s), sl.far_left)
                            /\ HoldsAt(Turned(<<0, -1, 1>>, s), sl.far_mid)
                  /\ ip \in DOMAIN draft.player_factions =>
                        HoldsAt(Turned(<<0, -3, 3>>, s),
                                draft.faction_homes[draft.player_factions[ip] + 1])
        /\ HoldsAt(<<0, 0, 0>>, draft.mecatol)

\* the cells the slice of a seated player takes
SliceCellsOf(ip) ==
    {Turned(c, draft.player_order[ip]) :
        c \in {<<0, -3, 3>>, <<-1, -2, 3>>, <<0, -2, 2>>, <<1, -3, 2>>,
               <<-1, -1, 2>>, <<0, -1, 1>>}}

-----------------------------------------------------------------------------
(* The draft of six players, as the source fixes it (n_players:            *)
(* Literal[6], six slices), taken turn by turn along snake_order: the      *)
(* player of the turn applies one of the labels offered to them, to_map    *)
(* may be called between the turns.  The way the players pick is fixed at  *)
(* the start: which of seat, slice and faction a player takes in which     *)
(* round, and which of the offered entries of that kind.                   *)

\* MiltyDraftState.n_players: Literal[6] = 6
SixPlayers == 6

\* the factions gen_milty_base was asked for
SixFactions == 7

\* the callers number the players first, first + 1, ...
MaxFirst == 1

MaxStep == 2

\* the draft state gen_milty_base hands out for six players
DraftOfSix ==
    LET ts == TileSet(n_blues * SixPlayers, n_reds * SixPlayers, SixFactions)
        slice(i) == from_list(SubSeq(ts.red_tiles, n_reds * (i - 1) + 1, n_reds * i)
                              \o SubSeq(ts.blue_tiles, n_blues * (i - 1) + 1, n_blues * i)).value
    IN  [n_players |-> SixPlayers, slices |-> [i \in 1..SixPlayers |-> slice(i)],
         factions |-> [i \in 1..SixFactions |-> Faction("Faction " \o ToString(i - 1))],
         faction_homes |-> ts.home_tiles, mecatol |-> ts.mecatol,
         player_names |-> <<>>, player_order |-> <<>>,
         player_slices |-> <<>>, player_factions |-> <<>>]

Categories == <<"seat", "slice", "faction">>

\* the labels available_player_choices makes for one of its three loops, in
\* the order of the loop
LabelsOf(self, player_num, category) ==
    CASE category = "seat" ->
            IF player_num \in DOMAIN self.player_order THEN <<>>
            ELSE [i \in 1..Len(available_seats(self)) |-> SeatLabel(available_seats(self)[i])]
      [] category = "slice" ->
            IF player_num \in DOMAIN self.player_slices THEN <<>>
            ELSE [i \in 1..Len(available_slices(self)) |->
                    SliceLabel(available_slices(self)[i],
                               self.slices[available_slices(self)[i] + 1])]
      [] category = "faction" ->
            IF player_num \in DOMAIN self.player_factions THEN <<>>
            ELSE [i \in 1..Len(available_factions(self)) |->
                    self.factions[available_factions(self)[i] + 1].name]

\* what the player of this turn takes: seat, slice or faction
CategoryOfTurn(sn, p) ==
    Categories[((sn.turn \div SixPlayers + p * sn.shift + sn.start) % Len(Categories)) + 1]

SnakeInit ==
    /\ draft = DraftOfSix
    /\ raised = "no call"
    /\ tmap = NoMap
    /\ GenIdle
    /\ hx = NoCall
    /\ mr = NoCall
    /\ call = NoCall
    /\ BotIdle
    /\ \E f \in 0..MaxFirst, shift \in 0..(Len(Categories) - 1),
          start \in 0..(Len(Categories) - 1), step \in 0..MaxStep :
          snake = [turn |-> 0, first |-> f, shift |-> shift, start |-> start,
                   step |-> step]

\* One turn: the caller asks available_player_choices for the player whose
\* turn it is and calls apply_player_choice with one of the labels.
SnakeTurn ==
    /\ snake.turn < Len(snake_order(draft))
    /\ LET p          == snake_order(draft)[snake.turn + 1]
           player_num == p + snake.first
           labels     == LabelsOf(draft, player_num, CategoryOfTurn(snake, p))
       IN  /\ Len(labels) > 0
           /\ LET choice_name == labels[((snake.step * snake.turn) % Len(labels)) + 1]
                  r == apply_player_choice(draft, player_num, choice_name)
              IN  /\ choice_name \in DOMAIN available_player_choices(draft, player_num)
                  /\ draft' = r.self
                  /\ raised' = r.raised
                  /\ tmap' = NoMap
    /\ snake' = [snake EXCEPT !.turn = @ + 1]
    /\ UNCHANGED <<gen_vars, hx, mr, call, bot_vars>>

SnakeNext == SnakeTurn \/ ToMap

SpecSnake == SnakeInit /\ [][SnakeNext]_vars

-----------------------------------------------------------------------------
(* Claims about the draft of six players, checked under SpecSnake. *)

\* the number of assignments in the three maps of the players
Entries(self) ==
    Cardinality(DOMAIN self.player_order) + Cardinality(DOMAIN self.player_slices)
    + Cardinality(DOMAIN self.player_factions)

\* the maps in which the two states differ
MapsChanged(self, after) ==
    {c \in {"player_order", "player_slices", "player_factions"} :
        CASE c = "player_order" -> self.player_order # after.player_order
          [] c = "player_slices" -> self.player_slices # after.player_slices
          [] OTHER -> self.player_factions # after.player_factions}

\* C36: in a draft of six players numbered 0..5 with at least six factions,
\* in every incomplete state every player who lacks a seat, a slice or a
\* faction is offered at least one choice of each kind they lack; every
\* apply_player_choice with an offered label adds exactly one entry to
\* exactly one of the three maps and raises nothing; the turns of
\* snake_order are 18, and the draft is complete exactly when they are taken.
C36_DraftProgress ==
    /\ [](snake.first = 0 =>
            /\ ~is_complete(draft) =>
                  \A pl \in 0..(SixPlayers - 1) : \A k \in 1..Len(Categories) :
                      LET lacks == CASE Categories[k] = "seat" ->
                                            pl \notin DOMAIN draft.player_order
                                     [] Categories[k] = "slice" ->
                                            pl \notin DOMAIN draft.player_slices
                                     [] OTHER -> pl \notin DOMAIN draft.player_factions
                      IN  lacks =>
                            /\ Len(LabelsOf(draft, pl, Categories[k])) > 0
                            /\ \A i \in 1..Len(LabelsOf(draft, pl, Categories[k])) :
                                  LabelsOf(draft, pl, Categories[k])[i]
                                      \in DOMAIN available_player_choices(draft, pl)
            /\ is_complete(draft) <=> snake.turn = Len(snake_order(draft))
            /\ is_complete(draft) => snake.turn = 18)
    /\ [][(snake.first = 0 /\ snake'.turn = snake.turn + 1) =>
            /\ raised' = "None"
            /\ Entries(draft') = Entries(draft) + 1
            /\ Cardinality(MapsChanged(draft, draft')) = 1]_vars

\* the six players 0..5 have taken their 18 turns, taking seats, slices and
\* factions in different orders
C36_Witness ==
    /\ snake.first = 0
    /\ snake.shift = 1
    /\ snake.step = 2
    /\ snake.turn = 18
    /\ is_complete(draft)
    /\ DOMAIN draft.player_order = 0..(SixPlayers - 1)

\* the coordinates within distance d of the origin
Disk(d) ==
    {c \in ((0 - d)..d) \X ((0 - d)..d) \X ((0 - d)..d) : c[1] + c[2] + c[3] = 0}

\* the coordinates the slice of a player at seat takes
Footprint(self, seat) == DOMAIN to_tile_dict(self.slices[1], seat)

\* C35: the map of a complete draft of six has exactly 37 cells, the
\* coordinates within distance 3 of the origin; the six seats' slices take
\* pairwise disjoint sets of 6 coordinates without the origin, and every
\* tile of a player's slice stands in the map where the slice put it.
C35_CompleteMapFull ==
    (tmap.raised = "None" /\ is_complete(draft)) =>
        /\ Cardinality(DOMAIN tmap.cells) = 37
        /\ DOMAIN tmap.cells = Disk(3)
        /\ \A s1 \in 0..(SixPlayers - 1) :
              /\ Cardinality(Footprint(draft, s1)) = 6
              /\ <<0, 0, 0>> \notin Footprint(draft, s1)
              /\ \A s2 \in 0..(SixPlayers - 1) :
                    s1 # s2 => Footprint(draft, s1) \cap Footprint(draft, s2) = {}
        /\ \A pl \in DOMAIN draft.player_slices :
              LET placed == to_tile_dict(draft.slices[draft.player_slices[pl] + 1],
                                         draft.player_order[pl])
              IN  \A c \in DOMAIN placed :
                      /\ c \in DOMAIN tmap.cells
                      /\ c # rotations_of(<<0, -3, 3>>, draft.player_order[pl])
                            => tmap.cells[c] = placed[c]

-----------------------------------------------------------------------------
(* gen_helper.py: MapGenHelper.import_map.  A str is the sequence of its   *)
(* characters; the image made at the end is left out, the map is what is   *)
(* told of the call.                                                       *)

\* the numbers MAP_STRING_REGEX asks for: one and 35 more
MAP_STRING_NUMBERS == 36

\* the zeros of the strings imported go up to this many
MaxZeros == 7

\* the characters of \d the strings are written with, "0" first
Digits == <<"0", "1", "2", "3", "4", "5", "6", "7", "8", "9">>

IsDigit(c) == \E i \in 1..Len(Digits) : Digits[i] = c

\* the characters of \s the strings are written with
IsSpace(c) == c \in {" ", "\t", "\n"}

\* s without the newline that ends it, if one does: $ matches at the end of
\* the string and before a newline that ends it
before_last_newline(s) ==
    IF Len(s) > 0 /\ s[Len(s)] = "\n" THEN SubSeq(s, 1, Len(s) - 1) ELSE s

\* the places of s where a run of characters of one kind begins: whitespace
\* for blank = TRUE, anything else for blank = FALSE
run_starts(s, blank) ==
    {i \in 1..Len(s) : IsSpace(s[i]) = blank /\ (i = 1 \/ IsSpace(s[i - 1]) # blank)}

\* the length of the run of s that begins at place i
run_length(s, i) ==
    LET other == {j \in i..Len(s) : IsSpace(s[j]) # IsSpace(s[i])}
    IN  (IF other = {} THEN Len(s) + 1 ELSE CHOOSE j \in other : \A k \in other : j <= k) - i

\* re.match(MAP_STRING_REGEX, s) for the regex ^\d{1,2}(?:\s\d{1,2}){k-1}$:
\* up to the end (or to the newline that ends s) there are only digits and
\* whitespace, s begins and ends with a digit, the digits come in k runs of
\* one or two (a longer run cannot be split, since \s must follow a
\* number), and one whitespace character stands between two runs.
re_match(s, k) ==
    LET b == before_last_newline(s)
    IN  /\ Len(b) > 0
        /\ \A i \in 1..Len(b) : IsDigit(b[i]) \/ IsSpace(b[i])
        /\ IsDigit(b[1]) /\ IsDigit(b[Len(b)])
        /\ \A i \in run_starts(b, TRUE) : run_length(b, i) = 1
        /\ \A i \in run_starts(b, FALSE) : run_length(b, i) \in {1, 2}
        /\ Cardinality(run_starts(b, FALSE)) = k

\* str.split(): the runs of characters between whitespace, in their order
split(s) ==
    LET starts == run_starts(s, FALSE)
    IN  [w \in 1..Cardinality(starts) |->
            LET b == CHOOSE i \in starts : Cardinality({j \in starts : j <= i}) = w
            IN  SubSeq(s, b, b + run_length(s, b) - 1)]

\* int(x) of a run of digits
RECURSIVE int(_)
int(x) ==
    IF x = <<>> THEN 0
    ELSE 10 * int(SubSeq(x, 1, Len(x) - 1)) + (Index(Digits, x[Len(x)]))

\* sorted(raw, key=lambda x: x.number), a stable sort: a tile comes after
\* the tiles of a smaller number and the tiles of its number that are before
\* it in raw
sorted_by_number(raw) ==
    LET rank(i) == Cardinality({j \in 1..Len(raw) :
                        \/ raw[j].number < raw[i].number
                        \/ raw[j].number = raw[i].number /\ j <= i})
    IN  [p \in 1..Len(raw) |-> raw[CHOOSE i \in 1..Len(raw) : rank(i) = p]]

\* the property TileSet.all_tiles
all_tiles(self) ==
    sorted_by_number(<<self.mecatol>> \o self.blue_tiles \o self.red_tiles \o self.home_tiles)

\* TileSet.get_by_number
get_by_number(self, num) ==
    LET sorted == all_tiles(self)
        found  == {i \in 1..Len(sorted) : sorted[i].number = num}
    IN  IF found = {}
        THEN [raised |-> "ValueError: No tile exists for number", value |-> "None"]
        ELSE [raised |-> "None",
              value  |-> sorted[CHOOSE i \in found : \A j \in found : i <= j]]

\* home_tiles of import_map, line 73
home_tiles == <<"A", "B", "C", "D", "E", "F">>

\* PlaceholderTile(home_name=...): the model has no field home_name and
\* ignores the keyword, so the tile is the PlaceholderTile of the defaults
PlaceholderTile_named(home_name) == PlaceholderTile

\* TextMapAnnotation(cell=..., text=...)
TextMapAnnotation(cell, text) == [cell |-> cell, text |-> text]

\* The loop of lines 74-90 over the items of coord_to_num, which are the
\* coordinates of the spiral with their numbers, in the order of the spiral.
\* The item at place i is a home if its number is 0, and then home_num is
\* the number of zeros before it; the loop ends at the first item whose
\* home_tiles[home_num] or get_by_number(num) raises.
import_cells(game_tiles, coord_list, num_list) ==
    LET home_num(i) == Cardinality({j \in 1..(i - 1) : num_list[j] = 0})
        step(i) ==
            IF num_list[i] = 0
            THEN IF home_num(i) >= Len(home_tiles)
                 THEN [raised |-> "IndexError", value |-> "None"]
                 ELSE [raised |-> "None",
                       value  |-> PlaceholderTile_named(home_tiles[home_num(i) + 1])]
            ELSE get_by_number(game_tiles, num_list[i])
        failed == {i \in 1..Len(coord_list) : step(i).raised # "None"}
        homes  == {i \in 1..Len(coord_list) : num_list[i] = 0}
    IN  IF failed # {}
        THEN [raised |-> step(CHOOSE i \in failed : \A k \in failed : i <= k).raised,
              value  |-> "None"]
        ELSE [raised |-> "None",
              value  |->
                [cells |->
                    [c \in {coord_list[i] : i \in 1..Len(coord_list)} |->
                        step(CHOOSE i \in 1..Len(coord_list) :
                                /\ coord_list[i] = c
                                /\ \A k \in 1..Len(coord_list) : coord_list[k] = c => k <= i).value],
                 annotations |->
                    [a \in 1..Cardinality(homes) |->
                        LET i == CHOOSE h \in homes :
                                    Cardinality({k \in homes : k <= h}) = a
                        IN  TextMapAnnotation(coord_list[i], home_tiles[a])]]]

\* import_map that puts the number of the center tile last in tile_nums
import_map_center_last(game_tiles, map_string) ==
    IF ~re_match(map_string, MAP_STRING_NUMBERS)
    THEN [raised |-> "ValueError: Bad map string.", value |-> "None"]
    ELSE LET words     == split(map_string)
             tile_nums == [iw \in 1..Len(words) |-> int(words[iw])] \o <<18>>
             coords    == spiral_take(get_spiral, Len(tile_nums))
         IN  import_cells(game_tiles, coords, tile_nums)

\* import_map(n_players, map_string) with self.game_info.tiles = game_tiles
import_map(game_tiles, map_string) ==
    IF ~re_match(map_string, MAP_STRING_NUMBERS)
    THEN [raised |-> "ValueError: Bad map string.", value |-> "None"]
    ELSE LET words     == split(map_string)
             tile_nums == <<18>> \o [iw \in 1..Len(words) |-> int(words[iw])]
             coords    == spiral_take(get_spiral, Len(tile_nums))
         IN  import_cells(game_tiles, coords, tile_nums)

\* The catalog of the helper, self.game_info.tiles.
GameTiles == TileSetBase

\* the numbers of the tiles of the catalog
KnownNumbers == [i \in 1..Len(all_tiles(GameTiles)) |-> all_tiles(GameTiles)[i].number]

\* str(n) of a number below 100
Str(n) ==
    IF n < 10 THEN <<Digits[n + 1]>> ELSE <<Digits[(n \div 10) + 1], Digits[(n % 10) + 1]>>

\* a list of k numbers: tiles of the catalog, and a zero at the places
\* 2, 7, 12, ... up to z of them
MapNumbers(k, z) ==
    [i \in 1..k |-> IF i % 5 = 2 /\ i \div 5 < z THEN 0
                    ELSE KnownNumbers[(i % Len(KnownNumbers)) + 1]]

\* the words a place of a string is overwritten with: a zero, a number with
\* a leading zero, the center's number, a number of no tile, three digits, a
\* negative number, a word of no digits, nothing
Words ==
    {<<"0">>, <<"0", "1">>, <<"1", "8">>, <<"9", "9">>, <<"1", "2", "3">>,
     <<"-", "1">>, <<"x">>, <<>>}

\* what stands between two words: a blank, a tab, two blanks, a comma, nothing
Separators == {<<" ">>, <<"\t">>, <<" ", " ">>, <<",">>, <<>>}

\* what stands after the last word
Tails == {<<>>, <<"\n">>, <<" ">>, <<"\n", "\n">>}

\* the pieces from place lo to place hi put one after another
RECURSIVE Concat(_, _, _)
Concat(pieces, lo, hi) ==
    IF lo > hi THEN <<>>
    ELSE IF lo = hi THEN pieces[lo]
    ELSE Concat(pieces, lo, (lo + hi) \div 2) \o Concat(pieces, ((lo + hi) \div 2) + 1, hi)

\* a map string in parts: its words with the separators between them, and
\* its tail
MapString(ws, seps, tail) ==
    LET pieces == [p \in 1..(2 * Len(ws)) |->
                      IF p % 2 = 1 THEN ws[(p + 1) \div 2]
                      ELSE IF p = 2 * Len(ws) THEN tail
                      ELSE seps[p \div 2]]
    IN  Concat(pieces, 1, 2 * Len(ws))

WordsOf(nums) == [i \in 1..Len(nums) |-> Str(nums[i])]

Blanks(k) == [i \in 1..k |-> <<" ">>]

\* The strings handed to import_map: well-formed strings with up to MaxZeros
\* zeros, and such strings with one word or one separator overwritten (at
\* the front, in the middle or at the end), with a tail, or with a number
\* too few or too many.
MapStringParts ==
    LET n == MAP_STRING_NUMBERS
        plain(k, z) == [ws |-> WordsOf(MapNumbers(k, z)), seps |-> Blanks(k - 1), tail |-> <<>>]
        places == {1, 2, n \div 2, n - 1, n}
    IN  {plain(n, z) : z \in 0..MaxZeros}
        \cup {[plain(n, z) EXCEPT !.ws[p] = w] : z \in {0, 2}, p \in places, w \in Words}
        \cup {[plain(n, 1) EXCEPT !.seps[p] = x] : p \in places \ {n}, x \in Separators}
        \cup {[plain(n, 1) EXCEPT !.tail = t] : t \in Tails}
        \cup {plain(k, 1) : k \in {n - 1, n + 1}}

CallFrame == UNCHANGED <<draft_vars, gen_vars, hx, mr, snake, bot_vars>>

Returned(op, arguments, r) ==
    call' = [op |-> op, args |-> arguments, raised |-> r.raised, value |-> r.value]

CallsInit ==
    /\ draft = GeneratedDraft
    /\ raised = "no call"
    /\ tmap = NoMap
    /\ GenIdle
    /\ LibIdle

\* import_map is called with the string written from the parts x; args keeps
\* the parts next to the string
ImportMap(x) ==
    /\ call.op = "None"
    /\ LET map_string == MapString(x.ws, x.seps, x.tail)
       IN  Returned("import_map", [map_string |-> map_string, parts |-> x],
                    import_map(GameTiles, map_string))
    /\ CallFrame

\* the string consists of exactly MAP_STRING_NUMBERS numbers of one or two
\* digits, one whitespace character between two of them
WellFormed(x) ==
    /\ Len(x.ws) = MAP_STRING_NUMBERS
    /\ \A i \in 1..Len(x.ws) :
          /\ Len(x.ws[i]) \in {1, 2}
          /\ \A j \in 1..Len(x.ws[i]) : IsDigit(x.ws[i][j])
    /\ \A i \in 1..Len(x.seps) : Len(x.seps[i]) = 1 /\ IsSpace(x.seps[i][1])
    /\ x.tail \in {<<>>, <<"\n">>}

\* the number a word of digits stands for
NumberOf(w) ==
    IF Len(w) = 1 THEN Index(Digits, w[1])
    ELSE 10 * Index(Digits, w[1]) + Index(Digits, w[2])

\* The tile numbers of a map read back in spiral order, the center skipped
\* and 0 written for a PlaceholderTile.
ReadBack(m) ==
    [i \in 1..MAP_STRING_NUMBERS |->
        LET t == m.cells[spiral_item(i)]
        IN  IF t = PlaceholderTile THEN 0 ELSE t.number]

\* the zeros among the first i numbers of the string
Zeros(x, i) == {j \in 1..i : NumberOf(x.ws[j]) = 0}

\* A valid map string: MAP_STRING_NUMBERS numbers of one or two digits, each
\* 0 or the number of a tile of the catalog, with no more zeros than there
\* are home labels.
ValidMapString(x) ==
    /\ WellFormed(x)
    /\ \A i \in 1..Len(x.ws) :
          \/ NumberOf(x.ws[i]) = 0
          \/ \E k \in 1..Len(KnownNumbers) : KnownNumbers[k] = NumberOf(x.ws[i])
    /\ Cardinality(Zeros(x, Len(x.ws))) <= Len(home_tiles)

\* C22: a valid map string is imported, and the tile numbers of the map read
\* back in spiral order (the center skipped, 0 for a PlaceholderTile) are
\* the numbers of the string in their order.
C22_RoundTrip ==
    (call.op = "import_map" /\ ValidMapString(call.args.parts)) =>
        /\ call.raised = "None"
        /\ LET ws == call.args.parts.ws
           IN  ReadBack(call.value) = [i \in 1..Len(ws) |-> NumberOf(ws[i])]

\* a valid string with a zero, a number written with a leading zero and the
\* newline at its end has been imported
C22_Witness ==
    /\ call.op = "import_map"
    /\ ValidMapString(call.args.parts)
    /\ Zeros(call.args.parts, MAP_STRING_NUMBERS) # {}
    /\ \/ \E i \in 1..MAP_STRING_NUMBERS : call.args.parts.ws[i] = <<"0", "1">>
       \/ call.args.parts.tail = <<"\n">>

\* C23: import_map raises the ValueError "Bad map string." for every string
\* that is not MAP_STRING_NUMBERS numbers of one or two digits; for every
\* other string it returns a map of MAP_STRING_NUMBERS + 1 cells with tile
\* 18 at the origin, the i-th number's tile at the i-th place of the spiral,
\* and for the k-th zero a PlaceholderTile, its cell labelled with the k-th
\* of the letters A..F.
C23_ImportChecked ==
    call.op = "import_map" =>
        LET x == call.args.parts
        IN  IF ~WellFormed(x)
            THEN call.raised = "ValueError: Bad map string."
            ELSE /\ call.raised = "None"
                 /\ Cardinality(DOMAIN call.value.cells) = MAP_STRING_NUMBERS + 1
                 /\ call.value.cells[<<0, 0, 0>>].number = 18
                 /\ \A i \in 1..MAP_STRING_NUMBERS :
                       LET num == NumberOf(x.ws[i])
                           t   == call.value.cells[spiral_item(i)]
                           k   == Cardinality(Zeros(x, i))
                       IN  IF num = 0
                           THEN /\ t = PlaceholderTile
                                /\ \E a \in 1..Len(call.value.annotations) :
                                      call.value.annotations[a]
                                         = TextMapAnnotation(spiral_item(i), home_tiles[k])
                           ELSE t.number = num

-----------------------------------------------------------------------------
(* Claims about the steps of the rebalancer, checked under SpecGen. *)

\* the least value of the quantity q_name over the slices
MinQuantity(slices, q_name) ==
    get_slice_quantity(slices[sl_order_first(slices, q_name)], q_name)

\* the step from the state to the next one is a swap of
\* _swap_random_blue_tiles
SwapStep == pc = "swap" /\ pc' = "rb_loop"

\* C29: a swap of the rebalancer does not lower the least value, over all
\* slices, of the quantity it was made for.
C29_SwapKeepsMinimum ==
    [][SwapStep =>
          MinQuantity(rb'.slices, rb.qty_name) >= MinQuantity(rb.slices, rb.qty_name)]_vars

Rebalancing == pc \in {"rb_loop", "swap", "rb_return"}

\* the tiles of the slices, as a set
TilesOf(slices) == {tiles(slices[i])[k] : i \in 1..Len(slices), k \in 1..5}

\* C31: while rebalance works, after any number of steps, its slices hold
\* exactly the tiles of the original draft, each tile in one slice at one
\* place, every slice five tiles, and every tile without planets is in the
\* slice and at the place it had in the original draft.
C31_TilesKept ==
    Rebalancing =>
        /\ Len(rb.slices) = Len(raw_draft.slices)
        /\ TilesOf(rb.slices) = TilesOf(raw_draft.slices)
        /\ Cardinality(TilesOf(rb.slices)) = 5 * Len(rb.slices)
        /\ \A i \in 1..Len(rb.slices) : \A k \in 1..5 :
              Len(tiles(raw_draft.slices[i])[k].planets) = 0
                 => tiles(rb.slices[i])[k] = tiles(raw_draft.slices[i])[k]

\* two swaps have been made on a draft with tiles without planets, and a
\* tile with planets stands behind one without in a slice that has changed
C31_Witness ==
    /\ Rebalancing
    /\ rb.i_try >= 2
    /\ \E i \in 1..Len(rb.slices) :
          /\ rb.slices[i] # raw_draft.slices[i]
          /\ \E k \in 1..4 : /\ Len(tiles(rb.slices[i])[k].planets) = 0
                            /\ tiles(rb.slices[i])[k + 1] # tiles(raw_draft.slices[i])[k + 1]

\* C32: a swap made on slices that have no wormhole other than NO_WORMHOLE
\* on two of their tiles leaves the two slices it was made on that way.
C32_SwapKeepsWormholes ==
    [][(SwapStep /\ WormholesUnique(rb.slices)) =>
          WormholesUnique(<<rb'.slices[rb.smaller], rb'.slices[rb.larger]>>)]_vars

\* C33: rebalance raises the RuntimeError of its exhausted loop only when
\* its slices miss a threshold at that moment; when the slices meet every
\* threshold after at most max_tries swaps (after none too, for any
\* max_tries >= 0) it returns.
C33_ExhaustedOnlyBelowThreshold ==
    /\ rebalance_result.raised = "RuntimeError"
          => ~ThresholdsMet(slice_rebalancer, rebalance_result.value)
    /\ (/\ pc = "rb_loop"
        /\ rb.i_try <= args.retries_rebalance
        /\ ThresholdsMet(slice_rebalancer, rb.slices))
          => rb.i_try < args.retries_rebalance

\* C34: an attempt of make_generation that is followed by another one
\* leaves the generator in a state other than the one it started from, be
\* it make_random or rebalance that fails: the next attempt does not start
\* from the same state to build the same candidate again.
C34_RetryContinuesStream ==
    [][(/\ pc = "gen_loop"
        /\ i_try_global + 1 < args.retries_global
        /\ pc' # "done") => rng' # rng]_vars

-----------------------------------------------------------------------------
(* Calls of the methods of MiltyMapSlice, one call each.                   *)

MaxListLen == 7

\* the tiles the lists are made of: the catalog, sorted by number
CallTiles == all_tiles(GameTiles)

\* the list of k tiles that starts at tile s of CallTiles and goes on in
\* steps of d (all tiles alike for d = 0)
TileList(s, d, k) ==
    [i \in 1..k |-> CallTiles[((s + (i - 1) * d) % Len(CallTiles)) + 1]]

TileLists ==
    {TileList(s, d, k) : s \in 0..(Len(CallTiles) - 1), d \in 0..2, k \in 0..MaxListLen}

\* the lists the slices are made of that the methods are called on: with
\* and without a home tile, of different tiles or of one tile
SliceLists == {TileList(s, d, k) : s \in 0..3, d \in 0..2, k \in {5, 6}}

\* the tiles a tile is swapped for
Replacements == {CallTiles[1], CallTiles[Len(CallTiles) \div 2], CallTiles[Len(CallTiles)]}

FromList(ts) ==
    /\ call.op = "None"
    /\ Returned("from_list", [tiles |-> ts], from_list(ts))
    /\ CallFrame

\* swap_tile changes the slice it is called on: value is the slice after
\* the call, args.self the slice before it, made of the list args.made_of
SwapTile(ts, original, updated) ==
    /\ call.op = "None"
    /\ LET self == from_list(ts).value
       IN  Returned("swap_tile",
                    [self |-> self, made_of |-> ts,
                     original |-> original, updated |-> updated],
                    swap_tile(self, original, updated))
    /\ CallFrame

\* C24: from_list makes a slice of a list of 5 tiles (no home) or of 6 (the
\* sixth the home), the first five tiles at close_left, close_mid,
\* close_right, far_left, far_mid in this order; for a list of any other
\* length it raises ValueError and makes no slice.
C24_FromList ==
    call.op = "from_list" =>
        LET ts == call.args.tiles
        IN  IF Len(ts) \in {5, 6}
            THEN /\ call.raised = "None"
                 /\ call.value.close_left = ts[1]
                 /\ call.value.close_mid = ts[2]
                 /\ call.value.close_right = ts[3]
                 /\ call.value.far_left = ts[4]
                 /\ call.value.far_mid = ts[5]
                 /\ call.value.home = (IF Len(ts) = 6 THEN ts[6] ELSE "None")
            ELSE /\ call.raised = "ValueError"
                 /\ call.value = "None"

\* a slice with a home tile has been made of six different tiles
C24_Witness ==
    /\ call.op = "from_list"
    /\ Len(call.args.tiles) = 6
    /\ Cardinality({call.args.tiles[i] : i \in 1..6}) = 6
    /\ call.raised = "None"
    /\ call.value.home = call.args.tiles[6]

\* C25: swap_tile raises ValueError and leaves the slice as it was when
\* original is none of the five tiles of the slice (also when it is the
\* home tile); otherwise it puts updated at the place of original and leaves
\* the other four places and the home tile as they were.
C25_SwapTile ==
    call.op = "swap_tile" =>
        LET self  == call.args.self
            after == call.value
        IN  IF \A k \in 1..5 : tiles(self)[k] # call.args.original
            THEN /\ call.raised = "ValueError"
                 /\ after = self
            ELSE /\ call.raised = "None"
                 /\ \E k \in 1..5 :
                       /\ tiles(self)[k] = call.args.original
                       /\ tiles(after) = [tiles(self) EXCEPT ![k] = call.args.updated]
                 /\ after.home = self.home

\* a tile of a slice with a home tile has been swapped for a tile that is
\* not in the slice
C25_Witness ==
    /\ call.op = "swap_tile"
    /\ call.raised = "None"
    /\ Len(call.args.made_of) = 6
    /\ call.args.original # call.args.updated
    /\ call.value # call.args.self
    /\ \A k \in 1..5 : tiles(call.args.self)[k] # call.args.updated

-----------------------------------------------------------------------------
(* Calls of evaluate_tile and of evaluate_slice.                           *)

MaxValue == 2

MaxPlanets == 3

\* the planets of the tiles that are evaluated: every pair of resources and
\* influence from 0 to MaxValue, the tech specialties in turn
Techs == <<"NO_TECH", "RED", "YELLOW", "GREEN", "BLUE">>

PlanetPool ==
    {Planet(r, i, Techs[((r + 2 * i) % Len(Techs)) + 1]) : r \in 0..MaxValue, i \in 0..MaxValue}

PlanetLists ==
    UNION {[1..k -> PlanetPool] : k \in 0..MaxPlanets}

\* the lists the slices that are evaluated are made of
EvaluatedLists ==
    {TileList(s, d, k) : s \in 0..(Len(CallTiles) - 1), d \in 0..2, k \in {5, 6}}

EvaluateTile(planets) ==
    /\ call.op = "None"
    /\ LET tile == Tile(26, "None", "NO_WORMHOLE", "NO_ANOMALY", planets)
       IN  Returned("evaluate_tile", [tile |-> tile],
                    [raised |-> "None", value |-> evaluate_tile(tile)])
    /\ CallFrame

EvaluateSlice(ts) ==
    /\ call.op = "None"
    /\ LET self == from_list(ts).value
       IN  Returned("evaluate_slice", [self |-> self, made_of |-> ts],
                    [raised |-> "None", value |-> evaluate_slice(self)])
    /\ CallFrame

\* the sum of a sequence of numbers
RECURSIVE SumSeq(_)
SumSeq(xs) ==
    IF xs = <<>> THEN 0 ELSE SumSeq(SubSeq(xs, 1, Len(xs) - 1)) + xs[Len(xs)]

Permutations5 ==
    {f \in [1..5 -> 1..5] : \A a, b \in 1..5 : f[a] = f[b] => a = b}

\* C26: evaluate_tile gives a planet with R > I to the effective resources
\* with R, one with R < I to the effective influence with I, one with R = I
\* to both with R/2 each; the strict values are the sums of R and of I; so
\* the effective values add up to the sum of max(R, I) and neither exceeds
\* its strict value (the effective values are counted in twentieths).
C26_EvaluateTile ==
    call.op = "evaluate_tile" =>
        LET ps == call.args.tile.planets
            v  == call.value
            R(k) == ps[k].resources
            I(k) == ps[k].influence
            Over(F(_)) == SumSeq([k \in 1..Len(ps) |-> F(k)])
            er(k) == IF R(k) > I(k) THEN 20 * R(k) ELSE IF R(k) < I(k) THEN 0 ELSE 10 * R(k)
            ei(k) == IF R(k) > I(k) THEN 0 ELSE IF R(k) < I(k) THEN 20 * I(k) ELSE 10 * I(k)
            mx(k) == 20 * Max2(R(k), I(k))
        IN  /\ v.eff_resources = Over(er)
            /\ v.eff_influence = Over(ei)
            /\ v.strict_resources = Over(R)
            /\ v.strict_influence = Over(I)
            /\ v.eff_resources + v.eff_influence = Over(mx)
            /\ v.eff_resources <= 20 * v.strict_resources
            /\ v.eff_influence <= 20 * v.strict_influence

\* a tile with a planet of each kind (R > I, R < I, R = I > 0) has been
\* evaluated
C26_Witness ==
    /\ call.op = "evaluate_tile"
    /\ LET ps == call.args.tile.planets
       IN  /\ \E k \in 1..Len(ps) : ps[k].resources > ps[k].influence
           /\ \E k \in 1..Len(ps) : ps[k].resources < ps[k].influence
           /\ \E k \in 1..Len(ps) : ps[k].resources = ps[k].influence /\ ps[k].resources > 0
    /\ call.value.eff_resources > 0
    /\ call.value.eff_influence > 0

-----------------------------------------------------------------------------
(* data/models.py: the validation of a GameInfo and get_faction_home on    *)
(* the validated catalog.                                                  *)

MaxFactions == 2

MaxHomes == 3

\* the property GameInfo.faction_names
faction_names(self) == [i \in 1..Len(self.factions) |-> self.factions[i].name]

\* _chk_faction_tiles: TRUE when the validator raises nothing
chk_faction_tiles(self) ==
    LET tile_races == {self.tiles.home_tiles[i].race : i \in 1..Len(self.tiles.home_tiles)}
        fns        == Values(faction_names(self))
    IN  tile_races = fns

\* GameInfo(...): the validated model, or the ValidationError of
\* _chk_faction_tiles
GameInfo(min_players, max_players, factions, tile_set) ==
    LET self == [min_players |-> min_players, max_players |-> max_players,
                 factions |-> factions, tiles |-> tile_set]
    IN  IF chk_faction_tiles(self)
        THEN [raised |-> "None", value |-> self]
        ELSE [raised |-> "ValidationError", value |-> "None"]

\* TileSet.get_faction_home
get_faction_home(self, faction_name) ==
    LET found == SelectSeq(self.home_tiles, LAMBDA ht : ht.race = faction_name)
    IN  IF Len(found) # 1
        THEN [raised |-> "ValueError: Unknown or ambigious faction name", value |-> "None"]
        ELSE [raised |-> "None", value |-> found[1]]

\* the names of factions and the tags of home tiles ("None" for a tile
\* without a tag)
FactionNames == {"Faction 0", "Faction 1"}

Races == FactionNames \cup {"None"}

\* the lists of factions and of home tiles of the catalogs; the home tiles
\* of a list differ in their numbers
FactionLists ==
    UNION {[1..k -> {Faction(n) : n \in FactionNames}] : k \in 0..MaxFactions}

HomeLists ==
    {[i \in 1..Len(rs) |-> [HomeTile(i - 1) EXCEPT !.race = rs[i]]] :
        rs \in UNION {[1..k -> Races] : k \in 0..MaxHomes}}

\* a GameInfo is made of the catalog of the runs with the factions and the
\* home tiles given
LoadGameInfo(factions, homes) ==
    /\ call.op = "None"
    /\ Returned("GameInfo", [factions |-> factions, home_tiles |-> homes],
                GameInfo(2, 6, factions, [GameTiles EXCEPT !.home_tiles = homes]))
    /\ CallFrame

\* get_faction_home is called on the tiles of the GameInfo just validated
GetFactionHome(faction_name) ==
    /\ call.op = "GameInfo"
    /\ call.raised = "None"
    /\ Returned("get_faction_home",
                [self |-> call.value, faction_name |-> faction_name],
                get_faction_home(call.value.tiles, faction_name))
    /\ CallFrame

\* C28: a catalog that has passed validation has exactly one home tile for
\* each of its factions, and get_faction_home returns that tile for each of
\* them.
C28_OneHomePerFaction ==
    (/\ call.op = "get_faction_home"
     /\ \E i \in 1..Len(call.args.self.factions) :
           call.args.self.factions[i].name = call.args.faction_name) =>
        LET homes == call.args.self.tiles.home_tiles
            mine  == {i \in 1..Len(homes) : homes[i].race = call.args.faction_name}
        IN  /\ Cardinality(mine) = 1
            /\ call.raised = "None"
            /\ \A i \in mine : call.value = homes[i]

-----------------------------------------------------------------------------
(* gen_helper.py: MapGenHelper.gen_milty_base on a validated catalog.  The  *)
(* call of make_generation inside it is followed step by step in SpecGen;  *)
(* here it ends in one of the two ways it can end, with a draft of six     *)
(* slices or with the RuntimeError.                                        *)

\* the catalogs have up to MaxCatalog factions
MaxCatalog == 7

\* random.sample(population, k) for 0 <= k <= len(population), the branch
\* for a population of at most setsize elements: k draws from a pool, the
\* drawn place is refilled with the last element still in the pool
RECURSIVE sample_from(_, _, _, _, _)
sample_from(pool, state, k, i, res) ==
    IF i >= k THEN [value |-> res, rng |-> state]
    ELSE LET n == Len(pool)
             d == randbelow(state, n - i)
         IN  sample_from([pool EXCEPT ![d.value + 1] = pool[n - i]], d.rng, k, i + 1,
                         Append(res, pool[d.value + 1]))

sample(population, k, state) == sample_from(population, state, k, 0, <<>>)

\* gen_milty_base, lines 184-186: get_faction_home for each chosen faction
selected_homes(tile_set, selected_factions) ==
    [i \in 1..Len(selected_factions) |->
        get_faction_home(tile_set, selected_factions[i].name)]

\* gen_milty_base(n_factions=n_fac, seed=seed) on game_info, generation being how
\* make_generation ends
gen_milty_base(game_info, n_fac, seed, entropy, generation) ==
    IF n_fac < 6
    THEN [raised |-> "ValueError: Not enough factions!", value |-> "None"]
    ELSE IF n_fac > Len(game_info.factions)
    THEN [raised |-> "ValueError: Too many factions chosen", value |-> "None"]
    ELSE IF generation.raised # "None" THEN generation
    ELSE LET selected_factions ==
                 sample(game_info.factions, n_fac, rng_of_seed(seed, entropy)).value
             homes == selected_homes(game_info.tiles, selected_factions)
         IN  IF \E i \in 1..Len(homes) : homes[i].raised # "None"
             THEN [raised |-> "ValueError: Unknown or ambigious faction name",
                   value |-> "None"]
             ELSE [raised |-> "None",
                   value  |-> [generation.value EXCEPT
                                  !.factions = selected_factions,
                                  !.faction_homes = [i \in 1..Len(homes) |-> homes[i].value]]]

\* The catalogs: k factions with one home tile each, taken in another order
\* than the factions; a catalog that names its first faction twice; and a
\* catalog with a second home tile for its first faction.
Catalogs ==
    LET facs(k)  == [i \in 1..k |-> Faction("Faction " \o ToString(i - 1))]
        homes(k) == [i \in 1..k |-> HomeTile(k - i)]
    IN  {[factions |-> facs(k), home_tiles |-> homes(k)] : k \in 5..MaxCatalog}
        \cup {[factions |-> <<Faction("Faction 0")>> \o facs(MaxCatalog - 1),
               home_tiles |-> homes(MaxCatalog - 1)],
              [factions |-> facs(MaxCatalog - 1),
               home_tiles |-> Append(homes(MaxCatalog - 1),
                                     [HomeTile(MaxCatalog) EXCEPT !.race = "Faction 0"])]}

\* how make_generation ends
Generations ==
    {[raised |-> "RuntimeError: Slice generation failed.", value |-> "None"],
     [raised |-> "None",
      value  |-> [DraftOfSix EXCEPT !.factions = <<>>, !.faction_homes = <<>>]]}

GenMiltyBase(catalog, n_fac, seed, entropy, generation) ==
    /\ call.op = "None"
    /\ LET gi == GameInfo(2, 6, catalog.factions,
                          [GameTiles EXCEPT !.home_tiles = catalog.home_tiles])
       IN  /\ gi.raised = "None"
           /\ Returned("gen_milty_base",
                       [game_info |-> gi.value, n_factions |-> n_fac, seed |-> seed,
                        entropy |-> entropy, generation |-> generation.raised],
                       gen_milty_base(gi.value, n_fac, seed, entropy, generation))
    /\ CallFrame

\* C37: gen_milty_base raises for n_factions below 6 or above the number of
\* factions of the catalog; a draft it returns has n_factions factions, no
\* two of them the same, and its i-th home tile is the home tile of its i-th
\* faction.
C37_FactionsAndHomes ==
    call.op = "gen_milty_base" =>
        LET catalog == call.args.game_info
            n       == call.args.n_factions
        IN  /\ (n < 6 \/ n > Len(catalog.factions)) =>
                  call.raised \in {"ValueError: Not enough factions!",
                                   "ValueError: Too many factions chosen"}
            /\ call.raised = "None" =>
                  /\ Len(call.value.factions) = n
                  /\ Len(call.value.faction_homes) = n
                  /\ \A i \in 1..n : \A j \in 1..n :
                        i # j => call.value.factions[i] # call.value.factions[j]
                  /\ \A i \in 1..n :
                        /\ call.value.faction_homes[i].race = call.value.factions[i].name
                        /\ \E h \in 1..Len(catalog.tiles.home_tiles) :
                              catalog.tiles.home_tiles[h] = call.value.faction_homes[i]

CallsNext ==
    \/ \E ts \in TileLists : FromList(ts)
    \/ \E ts \in SliceLists, original \in Values(CallTiles), updated \in Replacements :
          SwapTile(ts, original, updated)
    \/ \E planets \in PlanetLists : EvaluateTile(planets)
    \/ \E ts \in EvaluatedLists : EvaluateSlice(ts)
    \/ \E factions \in FactionLists, homes \in HomeLists : LoadGameInfo(factions, homes)
    \/ \E faction_name \in FactionNames : GetFactionHome(faction_name)
    \/ \E catalog \in Catalogs, n_fac \in 5..(MaxCatalog + 1), seed \in Seeds,
          entropy \in 0..MaxSeed, generation \in Generations :
          GenMiltyBase(catalog, n_fac, seed, entropy, generation)
    \/ \E x \in MapStringParts : ImportMap(x)

SpecCalls == CallsInit /\ [][CallsNext]_vars

-----------------------------------------------------------------------------
(* bot/lobby_logic.py: the lobby and the game setup of a chat.  The        *)
(* handlers are coroutines of one event loop: a handler runs from one      *)
(* await that reaches the network to the next without any other handler    *)
(* running in between, and at such an await any other handler may run.     *)
(* An action is one such stretch of one handler.  An await of a coroutine  *)
(* of the bot itself (add_user_to_lobby, update_lobby, request_choice,     *)
(* Queue.put on an unbounded queue) does not suspend; successive awaits of *)
(* the network between which the handler touches nothing are one await.    *)
(* Objects that several coroutines hold (the dict of a lobby's users, a    *)
(* GameCurrState, a Queue) are kept in heap and referred to by their       *)
(* place in it.  A str is the sequence of its characters.                  *)

MaxChats == 1

MaxUsers == 2

\* What the users of the chats do is bounded by telegram.may: how many more
\* coroutines of create_lobby, of attempt_start_game, of update_lobby
\* closing a lobby and of set_map_string get as far as their first await,
\* and how many presses of choice buttons are under way at a time.
MaxStarts == 2

MaxBegins == 2

MaxLeaves == 1

MaxMapStr == 1

\* the presses of choice buttons on their way to the bot or in the queue
\* of their prompt
MaxPending == 2

\* the factions of the catalog of the bot's MapGenHelper
MaxLobbyCatalog == 14

\* The users race for the lobby and leave the prompts of the game alone; or
\* they set up one game and press the buttons of its prompts, more than
\* once at a time; or they set up one game, press a button at a time and
\* send map strings.
Budgets ==
    {[start |-> MaxStarts, begin |-> MaxBegins, leave |-> MaxLeaves, mapstr |-> 0,
      pending |-> 0],
     [start |-> 1, begin |-> 1, leave |-> 0, mapstr |-> 0, pending |-> MaxPending],
     [start |-> 1, begin |-> 1, leave |-> 0, mapstr |-> MaxMapStr, pending |-> MaxPending - 1]}

Chats == 1..MaxChats

Users == 1..MaxUsers

\* del d[k] of a key that is there
Del(d, k) == [x \in (DOMAIN d) \ {k} |-> d[x]]

\* the permutations of a set as lists
Orders(S) ==
    {o \in [1..Cardinality(S) -> S] : \A i, j \in 1..Cardinality(S) : i # j => o[i] # o[j]}

\* FLOW_MSG is answered with one of these
FlowChoices == << <<"A">>, <<"B">>, <<"C">> >>

\* game_flow_a: [f"Map {i+1}" for i in range(N_MAPS)]
MapChoices == [i \in 1..3 |-> <<"M", "a", "p", " ">> \o Str(i)]

\* game_flow_c: [str(x) for x in range(6, len(factions) // 2 + 1)]
FactionNumbers ==
    [i \in 1..(IF MaxLobbyCatalog \div 2 + 1 > 6 THEN MaxLobbyCatalog \div 2 + 1 - 6 ELSE 0) |->
        Str(5 + i)]

\* list("ABCDEF")[:n_players]
possible_locations(n) ==
    PySlice(<< <<"A">>, <<"B">>, <<"C">>, <<"D">>, <<"E">>, <<"F">> >>, 0, n)

\* int(x) of a str: the digits of x without the whitespace around them, or
\* the ValueError (signs and underscores do not occur in the strings here)
py_int(x) ==
    LET ds == {i \in 1..Len(x) : IsDigit(x[i])}
        lo == CHOOSE i \in ds : \A j \in ds : i <= j
        hi == CHOOSE i \in ds : \A j \in ds : j <= i
    IN  IF \/ ds = {}
           \/ \E i \in 1..Len(x) : ~IsDigit(x[i]) /\ ~IsSpace(x[i])
           \/ \E i \in lo..hi : ~IsDigit(x[i])
        THEN [raised |-> "ValueError", value |-> 0]
        ELSE [raised |-> "None", value |-> int(SubSeq(x, lo, hi))]

\* the strings sent with /mapstr: one import_map takes, one with the number
\* of no tile, one with a number too few
LobbyMapStrings ==
    LET n == MAP_STRING_NUMBERS
        ws == WordsOf(MapNumbers(n, 2))
    IN  {MapString(ws, Blanks(n - 1), <<>>),
         MapString([ws EXCEPT ![1] = <<"9", "9">>], Blanks(n - 1), <<>>),
         MapString(SubSeq(ws, 1, n - 1), Blanks(n - 2), <<>>)}

\* re.match(MAP_STRING_REGEX, map_str) of set_map_string, worked out once
\* for the strings sent
MatchingMapStrings == {s \in LobbyMapStrings : re_match(s, MAP_STRING_NUMBERS)}

\* what import_map raises for each of the strings sent
ImportRaised == [s \in LobbyMapStrings |-> import_map(GameTiles, s).raised]

\* UserChoiceCallback(chat_id, user_id, label, num)
UserChoiceCallback(chat_id, user_id, label, num) ==
    [chat_id |-> chat_id, user_id |-> user_id, label |-> label, num |-> num]

\* make_choices_kb: the buttons of the keyboard, each with its callback data
make_choices_kb(chat_id, user_id, choices) ==
    {UserChoiceCallback(chat_id, user_id, choices[i], i - 1) : i \in 1..Len(choices)}

\* the frame of a coroutine: the handler, where it stands, its locals
Coroutine(h, at_await, chat_id, user) ==
    [h |-> h, pc |-> at_await, chat_id |-> chat_id, user |-> user, msg |-> 0, users |-> 0,
     game |-> 0, asked |-> 0, qq |-> 0, choices |-> <<>>, res |-> <<>>, at |-> "None",
     user_order |-> <<>>, k |-> 0, possible_locations |-> <<>>, map_str |-> <<>>]

\* a coroutine is suspended at its first await
Spawn(frame) ==
    tasks' = Put(tasks, CHOOSE t \in 1..(Cardinality(DOMAIN tasks) + 1) : t \notin DOMAIN tasks,
                 frame)

\* the coroutine returns
Return(t) == tasks' = Del(tasks, t) /\ UNCHANGED log

\* the coroutine ends with an exception nothing catches
Raise(t, exc) == tasks' = Del(tasks, t) /\ log' = log \cup {exc}

\* the coroutine goes on to its next await
Goto(t, frame) == tasks' = [tasks EXCEPT ![t] = frame] /\ UNCHANGED log

LobbyFrame == UNCHANGED <<draft_vars, gen_vars, hx, mr, call, snake>>

LobbyInit ==
    /\ draft = GeneratedDraft
    /\ raised = "no call"
    /\ tmap = NoMap
    /\ GenIdle
    /\ hx = NoCall
    /\ mr = NoCall
    /\ call = NoCall
    /\ snake = NoSnake
    /\ gback = [lobby_msg |-> <<>>, lobby_users |-> <<>>, games |-> <<>>]
    /\ heap = [user_dicts |-> <<>>, games |-> <<>>, queues |-> <<>>]
    /\ tasks = <<>>
    /\ \E may \in Budgets : telegram = [keyboards |-> {}, updates |-> <<>>, may |-> may]
    /\ last_choice = [user |-> 0, choices |-> <<>>, res |-> <<>>]
    /\ log = {}

\* /start in a chat: create_lobby up to its first await
StartCommand(chat_id, user) ==
    /\ telegram.may.start > 0
    /\ IF chat_id \in DOMAIN gback.lobby_msg \/ chat_id \in DOMAIN gback.games
       THEN UNCHANGED <<tasks, telegram>>
       ELSE /\ Spawn(Coroutine("create_lobby", "answer", chat_id, user))
            /\ telegram' = [telegram EXCEPT !.may.start = @ - 1]
    /\ UNCHANGED <<gback, heap, last_choice, log>>
    /\ LobbyFrame

\* create_lobby after "Lobby created." is sent: the lobby is entered into
\* lobby_msg and lobby_users, the creator is added (add_user_to_lobby,
\* update_lobby up to its edit_text)
LobbyCreated(t) ==
    /\ t \in DOMAIN tasks
    /\ tasks[t].pc = "answer"
    /\ LET f  == tasks[t]
           id == Len(heap.user_dicts) + 1
       IN  /\ gback' = [gback EXCEPT !.lobby_msg = Put(@, f.chat_id, id),
                                     !.lobby_users = Put(@, f.chat_id, id)]
           /\ heap' = [heap EXCEPT !.user_dicts = Append(@, {f.user})]
    /\ Return(t)
    /\ UNCHANGED <<telegram, last_choice>>
    /\ LobbyFrame

\* cb_join: add_user_to_lobby, update_lobby up to its edit_text
Join(chat_id, user) ==
    /\ IF chat_id \notin DOMAIN gback.lobby_users
       THEN UNCHANGED heap    \* KeyError
       ELSE heap' = [heap EXCEPT !.user_dicts[gback.lobby_users[chat_id]] = @ \cup {user}]
    /\ UNCHANGED <<gback, tasks, telegram, last_choice, log>>
    /\ LobbyFrame

\* cb_leave: remove_user_from_lobby, update_lobby up to its edit_text; the
\* coroutine has more to do after the await when nobody is left
Leave(chat_id, user) ==
    /\ IF chat_id \notin DOMAIN gback.lobby_users
       THEN UNCHANGED <<heap, tasks, telegram>>    \* KeyError
       ELSE LET users == heap.user_dicts[gback.lobby_users[chat_id]] \ {user}
            IN  /\ heap' = [heap EXCEPT !.user_dicts[gback.lobby_users[chat_id]] = users]
                /\ IF chat_id \notin DOMAIN gback.lobby_msg \/ users # {}
                   THEN UNCHANGED <<tasks, telegram>>
                   ELSE /\ telegram.may.leave > 0
                        /\ Spawn(Coroutine("update_lobby", "closing", chat_id, user))
                        /\ telegram' = [telegram EXCEPT !.may.leave = @ - 1]
    /\ UNCHANGED <<gback, last_choice, log>>
    /\ LobbyFrame

\* update_lobby after "Lobby is closed." is written: the two del statements
LobbyClosed(t) ==
    /\ t \in DOMAIN tasks
    /\ tasks[t].pc = "closing"
    /\ LET f == tasks[t]
       IN  IF f.chat_id \notin DOMAIN gback.lobby_msg
           THEN Raise(t, "KeyError in update_lobby") /\ UNCHANGED gback
           ELSE /\ gback' = [gback EXCEPT !.lobby_msg = Del(@, f.chat_id),
                                          !.lobby_users = Del(@, f.chat_id)]
                /\ Return(t)
    /\ UNCHANGED <<heap, telegram, last_choice>>
    /\ LobbyFrame

\* cb_start: attempt_start_game up to "Starting game with players: ..."
StartButton(chat_id, user) ==
    /\ telegram.may.begin > 0
    /\ IF chat_id \notin DOMAIN gback.lobby_msg
       THEN UNCHANGED <<tasks, telegram>>
       ELSE IF user \notin heap.user_dicts[gback.lobby_users[chat_id]]
       THEN UNCHANGED <<tasks, telegram>>
       ELSE /\ Spawn([Coroutine("attempt_start_game", "starting", chat_id, user) EXCEPT
                         !.msg = gback.lobby_msg[chat_id],
                         !.users = gback.lobby_users[chat_id]])
            /\ telegram' = [telegram EXCEPT !.may.begin = @ - 1]
    /\ UNCHANGED <<gback, heap, last_choice, log>>
    /\ LobbyFrame

\* GameCurrState(last_msg, users)
GameCurrState(last_msg, users) ==
    [last_msg |-> last_msg, users |-> users, queues |-> <<>>, locations |-> <<>>]

\* request_choice up to qq.get(): what it raised, the heap with the new
\* Queue in the game's queues, the chat with the keyboard of the prompt
request_choice(hp, tg, chat_id, g, user_id, choices) ==
    IF user_id \notin hp.games[g].users
    THEN [raised |-> "ValueError: Bad user ID given.", heap |-> hp, telegram |-> tg, qq |-> 0]
    ELSE LET qq == Len(hp.queues) + 1
         IN  [raised |-> "None",
              heap |-> [hp EXCEPT !.queues = Append(@, <<>>),
                                  !.games[g].queues = Put(@, user_id, qq)],
              telegram |-> [tg EXCEPT !.keyboards =
                               @ \cup {[req_msg |-> qq, callback_data |-> cd] :
                                          cd \in make_choices_kb(chat_id, user_id, choices)}],
              qq |-> qq]

\* request_map_string up to qq.get(): no keyboard is sent
request_map_string(hp, tg, g, user_id) ==
    IF user_id \notin hp.games[g].users
    THEN [raised |-> "ValueError: Bad user ID given.", heap |-> hp, telegram |-> tg, qq |-> 0]
    ELSE LET qq == Len(hp.queues) + 1
         IN  [raised |-> "None",
              heap |-> [hp EXCEPT !.queues = Append(@, <<>>),
                                  !.games[g].queues = Put(@, user_id, qq)],
              telegram |-> tg,
              qq |-> qq]

\* the coroutine t calls request_choice and waits at qq.get(), or ends with
\* what the call raised; at names the statement the result goes to
Ask(t, f, rc, choices, user_id, at) ==
    /\ heap' = rc.heap
    /\ telegram' = rc.telegram
    /\ IF rc.raised # "None" THEN Raise(t, rc.raised)
       ELSE Goto(t, [f EXCEPT !.pc = "get", !.qq = rc.qq, !.choices = choices,
                              !.asked = user_id, !.at = at])

\* attempt_start_game after "Starting game with players: ..." is written:
\* the game is entered into games, the lobby deleted, the leader asked for
\* the flow
GameStarted(t) ==
    /\ t \in DOMAIN tasks
    /\ tasks[t].pc = "starting"
    /\ LET f   == tasks[t]
           g   == Len(heap.games) + 1
           hp1 == [heap EXCEPT !.games =
                      Append(@, GameCurrState(f.msg, heap.user_dicts[f.users]))]
           gb1 == [gback EXCEPT !.games = Put(@, f.chat_id, g)]
       IN  IF f.chat_id \notin DOMAIN gback.lobby_msg
           THEN /\ gback' = gb1
                /\ heap' = hp1
                /\ Raise(t, "KeyError in attempt_start_game")
                /\ UNCHANGED telegram
           ELSE /\ gback' = [gb1 EXCEPT !.lobby_msg = Del(@, f.chat_id),
                                        !.lobby_users = Del(@, f.chat_id)]
                /\ Ask(t, [f EXCEPT !.game = g],
                       request_choice(hp1, telegram, f.chat_id, g, f.user, FlowChoices),
                       FlowChoices, f.user, "flow")
    /\ UNCHANGED last_choice
    /\ LobbyFrame

\* request_choice: res = await qq.get(); the prompt is rewritten without its
\* keyboard
QueueGet(t) ==
    /\ t \in DOMAIN tasks
    /\ tasks[t].pc = "get"
    /\ heap.queues[tasks[t].qq] # <<>>
    /\ heap' = [heap EXCEPT !.queues[tasks[t].qq] = Tail(@)]
    /\ telegram' = [telegram EXCEPT !.keyboards = {b \in @ : b.req_msg # tasks[t].qq}]
    /\ Goto(t, [tasks[t] EXCEPT !.pc = "edit", !.res = Head(heap.queues[tasks[t].qq])])
    /\ UNCHANGED <<gback, last_choice>>
    /\ LobbyFrame

\* a user presses a button of a keyboard that is shown (while few presses
\* of the prompt wait to be handled or taken from its queue)
Press(user, button) ==
    /\ Len(telegram.updates) + Len(heap.queues[button.req_msg]) < telegram.may.pending
    /\ telegram' = [telegram EXCEPT !.updates =
                       Append(@, [from_user |-> user, callback_data |-> button.callback_data])]
    /\ UNCHANGED <<gback, heap, tasks, last_choice, log>>
    /\ LobbyFrame

\* cb_choice: the heap after the handler
cb_choice(gb, hp, from_user, callback_data) ==
    LET chat_id == callback_data.chat_id
    IN  IF chat_id \notin DOMAIN gb.games THEN hp
        ELSE IF callback_data.user_id # from_user THEN hp
        ELSE IF from_user \notin DOMAIN hp.games[gb.games[chat_id]].queues THEN hp
        ELSE [hp EXCEPT !.queues[hp.games[gb.games[chat_id]].queues[from_user]] =
                            Append(@, callback_data.label)]

\* the i-th callback query on its way reaches cb_choice
CbChoice(i) ==
    /\ i \in 1..Len(telegram.updates)
    /\ heap' = cb_choice(gback, heap, telegram.updates[i].from_user,
                         telegram.updates[i].callback_data)
    /\ telegram' = [telegram EXCEPT !.updates =
                       SubSeq(@, 1, i - 1) \o SubSeq(@, i + 1, Len(@))]
    /\ UNCHANGED <<gback, tasks, last_choice, log>>
    /\ LobbyFrame

\* /mapstr sent by a user: set_map_string up to "Map string accepted."
MapStrCommand(chat_id, user, map_str) ==
    /\ telegram.may.mapstr > 0
    /\ IF chat_id \notin DOMAIN gback.games
       THEN UNCHANGED <<tasks, telegram>>
       ELSE IF user \notin DOMAIN heap.games[gback.games[chat_id]].queues
       THEN UNCHANGED <<tasks, telegram>>
       ELSE IF map_str \notin MatchingMapStrings
       THEN UNCHANGED <<tasks, telegram>>
       ELSE /\ Spawn([Coroutine("set_map_string", "accepted", chat_id, user) EXCEPT
                         !.qq = heap.games[gback.games[chat_id]].queues[user],
                         !.map_str = map_str])
            /\ telegram' = [telegram EXCEPT !.may.mapstr = @ - 1]
    /\ UNCHANGED <<gback, heap, last_choice, log>>
    /\ LobbyFrame

\* set_map_string after "Map string accepted." is sent: qq.put(map_str)
MapStrAccepted(t) ==
    /\ t \in DOMAIN tasks
    /\ tasks[t].pc = "accepted"
    /\ heap' = [heap EXCEPT !.queues[tasks[t].qq] = Append(@, tasks[t].map_str)]
    /\ Return(t)
    /\ UNCHANGED <<gback, telegram, last_choice>>
    /\ LobbyFrame

\* request_choice returns res to the statement at
ChoiceReturned(t, at) ==
    /\ t \in DOMAIN tasks
    /\ tasks[t].pc = "edit"
    /\ tasks[t].at = at
    /\ last_choice' = [user |-> tasks[t].asked, choices |-> tasks[t].choices,
                       res |-> tasks[t].res]

\* game = self.games[chat_id] at the head of a flow
FlowGame(f) == gback.games[f.chat_id]

\* attempt_start_game with the leader's choice of the flow: the flow up to
\* its first await, or "Unknown choice - ignoring."
FlowChosen(t) ==
    /\ ChoiceReturned(t, "flow")
    /\ LET f == tasks[t]
       IN  IF f.res \notin {<<"A">>, <<"B">>, <<"C">>}
           THEN Goto(t, [f EXCEPT !.pc = "done"]) /\ UNCHANGED <<heap, telegram>>
           ELSE IF f.chat_id \notin DOMAIN gback.games
           THEN Raise(t, "KeyError in game_flow") /\ UNCHANGED <<heap, telegram>>
           ELSE CASE f.res = <<"A">> ->
                       /\ Goto(t, [f EXCEPT !.pc = "generating", !.game = FlowGame(f)])
                       /\ UNCHANGED <<heap, telegram>>
                  [] f.res = <<"B">> ->
                       LET rc == request_map_string(heap, telegram, FlowGame(f), f.user)
                       IN  /\ heap' = rc.heap
                           /\ telegram' = rc.telegram
                           /\ IF rc.raised # "None" THEN Raise(t, rc.raised)
                              ELSE Goto(t, [f EXCEPT !.pc = "get_str", !.game = FlowGame(f),
                                                     !.qq = rc.qq, !.asked = f.user])
                  [] f.res = <<"C">> ->
                       Ask(t, [f EXCEPT !.game = FlowGame(f)],
                           request_choice(heap, telegram, f.chat_id, FlowGame(f), f.user,
                                          FactionNumbers),
                           FactionNumbers, f.user, "n_factions")
    /\ UNCHANGED gback
    /\ LobbyFrame

\* game_flow_a after "Generating map...": generate_map raises when the
\* layouts on disk have none for the number of players; else the maps and
\* the poll are sent and the leader is asked for the map
MapsGenerated(t, layout_exists) ==
    /\ t \in DOMAIN tasks
    /\ tasks[t].pc = "generating"
    /\ LET f == tasks[t]
       IN  IF ~layout_exists
           THEN Raise(t, "ValueError in generate_map") /\ UNCHANGED <<heap, telegram>>
           ELSE Ask(t, f, request_choice(heap, telegram, f.chat_id, f.game, f.user, MapChoices),
                    MapChoices, f.user, "map")
    /\ UNCHANGED <<gback, last_choice>>
    /\ LobbyFrame

\* game_flow_a and game_flow_b from "Create order" on: the order is drawn
\* and the last of it is asked for a location
AskFirstLocation(t, f, user_order) ==
    LET n == Cardinality(heap.games[f.game].users)
    IN  Ask(t, [f EXCEPT !.user_order = user_order, !.k = n,
                         !.possible_locations = possible_locations(n)],
            request_choice(heap, telegram, f.chat_id, f.game, user_order[n],
                           possible_locations(n)),
            possible_locations(n), user_order[n], "location")

\* game_flow_a with the map the leader names: sel_map = int(name[4:]) - 1
MapChosen(t, user_order) ==
    /\ ChoiceReturned(t, "map")
    /\ LET f       == tasks[t]
           sel_map == py_int(PySlice(f.res, 4, Len(f.res)))
       IN  /\ user_order \in Orders(heap.games[f.game].users)
           /\ IF sel_map.raised # "None"
              THEN Raise(t, "ValueError in game_flow_a") /\ UNCHANGED <<heap, telegram>>
              ELSE IF sel_map.value - 1 \notin -3..2
              THEN Raise(t, "IndexError in game_flow_a") /\ UNCHANGED <<heap, telegram>>
              ELSE AskFirstLocation(t, f, user_order)
    /\ UNCHANGED gback
    /\ LobbyFrame

\* game_flow_b with the map string of the leader: request_map_string
\* returns what qq.get() gives, map_from_string imports it
MapStringGot(t, user_order) ==
    /\ t \in DOMAIN tasks
    /\ tasks[t].pc = "get_str"
    /\ heap.queues[tasks[t].qq] # <<>>
    /\ LET f    == tasks[t]
           res  == Head(heap.queues[f.qq])
           hp1  == [heap EXCEPT !.queues[f.qq] = Tail(@)]
           n    == Cardinality(heap.games[f.game].users)
       IN  /\ user_order \in Orders(heap.games[f.game].users)
           /\ IF res \notin LobbyMapStrings \/ ImportRaised[res] # "None"
              THEN heap' = hp1 /\ Raise(t, "ValueError in map_from_string")
                   /\ UNCHANGED telegram
              ELSE Ask(t, [f EXCEPT !.user_order = user_order, !.k = n,
                                    !.possible_locations = possible_locations(n)],
                       request_choice(hp1, telegram, f.chat_id, f.game,
                                      user_order[n], possible_locations(n)),
                       possible_locations(n), user_order[n], "location")
    /\ UNCHANGED <<gback, last_choice>>
    /\ LobbyFrame

\* the loop "for user in reversed(user_order)" of game_flow_a and
\* game_flow_b with the location chosen: it is removed from the list and
\* the next user is asked.  The ban and the pick round after the loop ask
\* the users in the same way for a faction each and are not followed; the
\* flow is taken up again at RESULTS, where the dict comprehension reads
\* v.home_name of a PlaceholderTile, which has no such field, and, when the
\* map has no PlaceholderTile, home_coords[loc] is looked up in an empty
\* dict: the flow ends with AttributeError or KeyError.
LocationChosen(t) ==
    /\ ChoiceReturned(t, "location")
    /\ LET f    == tasks[t]
           left == SelectSeq(f.possible_locations, LAMBDA x : x # f.res)
           hp1  == [heap EXCEPT !.games[f.game].locations = Put(@, f.asked, f.res)]
       IN  IF \A i \in 1..Len(f.possible_locations) : f.possible_locations[i] # f.res
           THEN heap' = hp1 /\ Raise(t, "ValueError in list.remove") /\ UNCHANGED telegram
           ELSE IF f.k > 1
           THEN Ask(t, [f EXCEPT !.k = f.k - 1, !.possible_locations = left],
                    request_choice(hp1, telegram, f.chat_id, f.game, f.user_order[f.k - 1], left),
                    left, f.user_order[f.k - 1], "location")
           ELSE heap' = hp1 /\ Raise(t, "AttributeError or KeyError in RESULTS")
                /\ UNCHANGED telegram
    /\ UNCHANGED gback
    /\ LobbyFrame

\* game_flow_c with the number of factions the leader names: gen_milty_base
\* raises when the generation fails; else the draft is sent and the flow
\* returns to attempt_start_game, which sends "Game setup is done"
FactionNumberChosen(t, generated) ==
    /\ ChoiceReturned(t, "n_factions")
    /\ LET f == tasks[t]
       IN  IF py_int(f.res).raised # "None"
           THEN Raise(t, "ValueError in game_flow_c")
           ELSE IF py_int(f.res).value < 6 \/ py_int(f.res).value > MaxLobbyCatalog
           THEN Raise(t, "ValueError in gen_milty_base")
           ELSE IF ~generated
           THEN Raise(t, "RuntimeError in make_generation")
           ELSE Goto(t, [f EXCEPT !.pc = "done"])
    /\ UNCHANGED <<gback, heap, telegram>>
    /\ LobbyFrame

\* attempt_start_game after "Game setup is done": del self.games[chat_id]
SetupDone(t) ==
    /\ t \in DOMAIN tasks
    /\ tasks[t].pc = "done"
    /\ IF tasks[t].chat_id \notin DOMAIN gback.games
       THEN Raise(t, "KeyError in attempt_start_game") /\ UNCHANGED gback
       ELSE gback' = [gback EXCEPT !.games = Del(@, tasks[t].chat_id)] /\ Return(t)
    /\ UNCHANGED <<heap, telegram, last_choice>>
    /\ LobbyFrame

\* the coroutines go on
Resume(t) ==
    \/ LobbyCreated(t)
    \/ LobbyClosed(t)
    \/ GameStarted(t)
    \/ QueueGet(t)
    \/ MapStrAccepted(t)
    \/ FlowChosen(t)
    \/ \E layout_exists \in BOOLEAN : MapsGenerated(t, layout_exists)
    \/ \E user_order \in UNION {Orders(S) : S \in SUBSET Users} :
          MapChosen(t, user_order) \/ MapStringGot(t, user_order)
    \/ LocationChosen(t)
    \/ \E generated \in BOOLEAN : FactionNumberChosen(t, generated)
    \/ SetupDone(t)

LobbyNext ==
    \/ \E chat_id \in Chats, user \in Users : StartCommand(chat_id, user)
    \/ \E chat_id \in Chats, user \in Users : Join(chat_id, user)
    \/ \E chat_id \in Chats, user \in Users : Leave(chat_id, user)
    \/ \E chat_id \in Chats, user \in Users : StartButton(chat_id, user)
    \/ \E user \in Users, button \in telegram.keyboards : Press(user, button)
    \/ \E i \in 1..MaxPending : CbChoice(i)
    \/ \E chat_id \in Chats, user \in Users, map_str \in LobbyMapStrings :
          MapStrCommand(chat_id, user, map_str)
    \/ \E t \in 1..(MaxStarts + MaxBegins + MaxLeaves + MaxMapStr) : Resume(t)

SpecLobby == LobbyInit /\ [][LobbyNext]_vars

\* the coroutines there can be
TaskIds == 1..(MaxStarts + MaxBegins + MaxLeaves + MaxMapStr)

\* the user a prompt is for presses one of its buttons
Answer ==
    \E button \in telegram.keyboards : Press(button.callback_data.user_id, button)

\* the user asked for a map string sends one
AnswerMapString ==
    \E t \in TaskIds, map_str \in LobbyMapStrings :
        /\ t \in DOMAIN tasks
        /\ tasks[t].pc = "get_str"
        /\ MapStrCommand(tasks[t].chat_id, tasks[t].asked, map_str)

\* The event loop resumes every coroutine whose await is over, every update
\* sent reaches its handler, and the users asked answer.
SpecLobbyFair ==
    /\ SpecLobby
    /\ \A t \in TaskIds : WF_vars(Resume(t))
    /\ WF_vars(\E i \in 1..MaxPending : CbChoice(i))
    /\ SF_vars(Answer)
    /\ SF_vars(AnswerMapString)

-----------------------------------------------------------------------------
(* Claims about the lobby and the game setup, checked under SpecLobby and  *)
(* SpecLobbyFair.                                                          *)

\* C38: what request_choice returns is one of the labels offered in that
\* call, whatever buttons are pressed and whenever the presses arrive; and
\* a press by another user than the one a button was issued to puts nothing
\* into any queue.
C38_OnlyOfferedLabels ==
    /\ [](last_choice.user # 0 =>
            \E i \in 1..Len(last_choice.choices) : last_choice.choices[i] = last_choice.res)
    /\ [][\A i \in 1..Len(telegram.updates) :
            (/\ CbChoice(i)
             /\ telegram.updates[i].from_user # telegram.updates[i].callback_data.user_id)
                => heap' = heap]_vars

\* C39: a chat never has a lobby and a game at once; lobby_msg and
\* lobby_users have the same chats; and while a chat has a lobby, the lobby
\* stays the one it is and keeps the users who joined, until it is closed
\* or started (no handler puts another lobby in its place).
C39_OneLobbyOrGame ==
    /\ [](/\ \A chat_id \in Chats :
                ~(chat_id \in DOMAIN gback.lobby_msg /\ chat_id \in DOMAIN gback.games)
          /\ DOMAIN gback.lobby_msg = DOMAIN gback.lobby_users)
    /\ [][\A chat_id \in Chats :
            (chat_id \in DOMAIN gback.lobby_msg /\ chat_id \in DOMAIN gback'.lobby_msg) =>
                /\ gback'.lobby_msg[chat_id] = gback.lobby_msg[chat_id]
                /\ gback'.lobby_users[chat_id] = gback.lobby_users[chat_id]]_vars

\* a coroutine waits at qq.get() for an answer that has not come
Unanswered ==
    \E t \in DOMAIN tasks :
        tasks[t].pc \in {"get", "get_str"} /\ heap.queues[tasks[t].qq] = <<>>

\* C40: when every prompt is answered in the end, a chat with a game in
\* games is in the end without it, however the setup flow went.
C40_GameRemoved ==
    ([]<>(~Unanswered)) =>
        \A chat_id \in Chats :
            (chat_id \in DOMAIN gback.games) ~> (chat_id \notin DOMAIN gback.games)

====
